---- MODULE Spec2Model ----
(***************************************************************************)
(* Lease manager of web_outlook_app.py: the external checkout / complete   *)
(* endpoints over the account_leases table of the SQLite store, together   *)
(* with the administrative operations that touch accounts and leases.      *)
(*                                                                         *)
(* Time is the store's clock in whole seconds.  Every request handler runs *)
(* on its own connection (get_db keeps one per request context); a write   *)
(* transaction holds SQLite's single write lock from its first write (or   *)
(* from BEGIN IMMEDIATE) to its commit, and a reader outside a transaction *)
(* sees committed data only.  A handler that needs the write lock while    *)
(* another connection holds it waits (busy_timeout); the transactions here *)
(* are a few statements long, so the wait is modelled as a guard.          *)
(***************************************************************************)
EXTENDS Integers, FiniteSets, Sequences, Bags, TLC

\* ------------------------------------------------------------------ bounds
MaxAccounts == 1
SeqAccounts == 2
RaceAccounts == 2
MaxLeases == 2
MaxTime == 62
TtlMaxTime == 3600
MaxLogs == 1
RunAccounts == 3
RunMaxTime == 21601
SchedAccounts == 2
SchedMaxTime == 180

\* ------------------------------------------------------- program constants
DefaultTtl == 900
MinTtl == 60
MaxTtl == 3600
BackoffMax == 10
ResumeTtl == 21600
EnvMaxWorkers == 12
EnvBatchSize == 80
DefaultDelay == 5
SchedulerLockTtl == 120
HeartbeatSeconds == 60
BackoffRetries == 3

\* ------------------------------------------------------------ input values
Callers == {1, 2}
Groups == {1, 2}
Statuses == {"active", "disabled"}
TickSteps == {31, 60}
TtlTickSteps == {3600}
CoarseTickSteps == {60}

\* A JSON value of a request body.  A float carries its value in tenths
\* (905 is 90.5); a "str" is the decimal text of the integer v; a "badstr"
\* is a text that is no integer literal.
JAbsent == [t |-> "absent", v |-> 0]
JNull == [t |-> "null", v |-> 0]
JEmpty == [t |-> "emptystr", v |-> 0]
JBadStr == [t |-> "badstr", v |-> 0]
JInt(n) == [t |-> "int", v |-> n]
JFloat(tenths) == [t |-> "float", v |-> tenths]
JStr(n) == [t |-> "str", v |-> n]

\* the ttl_seconds of the requests of Spec
ScenarioTtl == JInt(30)

TtlInputs == {JAbsent, JNull, JBadStr, JInt(30), JInt(75), JInt(5000),
              JFloat(905), JStr(75)}
GroupInputs == {JAbsent, JEmpty, JInt(0), JInt(1), JInt(2), JBadStr}
\* lease ids are uuid4 texts: fresh, and never equal to an account id
LeaseIdBase == 100
BogusLease == 99
Results == {"success", "failed"}

\* ------------------------------------------------------------------- state
VARIABLES
    now,          \* the clock, in seconds
    accounts,     \* accounts table: id -> [status, group_id, last_refresh_at]
    nextAccount,  \* AUTOINCREMENT of accounts.id
    leases,       \* account_leases table (committed rows)
    nextLease,    \* the next fresh lease id (uuid4)
    refresh_logs, \* account_refresh_logs table
    audit_logs,   \* audit_logs table
    dbLock,       \* the connection holding the write lock, 0 if none
    pc,           \* per caller: where its handler is
    req,          \* per caller: the request being handled
    tx,           \* per caller: the handler's local and uncommitted data
    resp,         \* the response sent by the last step, NoResp if it sent none
    resume_states, \* settings rows refresh_resume_state_<key>: key -> checkpoint
    refresh_runs, \* refresh_runs table (committed rows), in order of insertion
    rpc,          \* per runner: where its refresh run is
    run,          \* per runner: the locals of _refresh_accounts_generator and
                  \* the uncommitted writes of its connection
    events,       \* per runner: the events its generator has yielded
    config,       \* the last call of _resolve_refresh_config: inputs and result
    scheduler_lock, \* settings row scheduler_lock: NoLock or [owner, updated_at]
    scheduler,    \* per process: its scheduler, and when its heartbeat job is due
    validation,   \* the call of test_refresh_token in progress, or the last one
    inflight      \* per runner: the accounts its worker threads are validating

orchVars == <<resume_states, refresh_runs, rpc, run, events, config>>

schedVars == <<scheduler_lock, scheduler>>

vars == <<now, accounts, nextAccount, leases, nextLease, refresh_logs,
          audit_logs, dbLock, pc, req, tx, resp, orchVars, schedVars, validation,
          inflight>>

storeVars == <<accounts, nextAccount, leases, refresh_logs>>

\* ----------------------------------------------------------------- helpers
Min(S) == CHOOSE x \in S : \A y \in S : x <= y
Max2(a, b) == IF a >= b THEN a ELSE b
Min2(a, b) == IF a <= b THEN a ELSE b

\* data.get(key, default)
DataGet(x, default) == IF x.t = "absent" THEN default ELSE x

\* int(x) of Python: the value, or ok = FALSE where it raises
PyInt(x) ==
    CASE x.t = "int" -> [ok |-> TRUE, v |-> x.v]
      [] x.t = "float" -> [ok |-> TRUE,
                           v |-> IF x.v >= 0 THEN x.v \div 10 ELSE -((-x.v) \div 10)]
      [] x.t = "str" -> [ok |-> TRUE, v |-> x.v]
      [] OTHER -> [ok |-> FALSE, v |-> 0]

\* EffectiveTtl without the lower clamp: min(ttl_seconds, 3600)
EffectiveTtlNoFloor(raw) ==
    LET got == DataGet(raw, JInt(DefaultTtl))
        conv == PyInt(got)
        ttl == IF conv.ok THEN conv.v ELSE DefaultTtl
    IN Min2(ttl, MaxTtl)

\* EffectiveTtl without the upper clamp: max(60, ttl_seconds)
EffectiveTtlNoCeiling(raw) ==
    LET got == DataGet(raw, JInt(DefaultTtl))
        conv == PyInt(got)
        ttl == IF conv.ok THEN conv.v ELSE DefaultTtl
    IN Max2(MinTtl, ttl)

\* ttl_seconds of a checkout request
EffectiveTtl(raw) ==
    LET got == DataGet(raw, JInt(DefaultTtl))
        conv == PyInt(got)
        ttl == IF conv.ok THEN conv.v ELSE DefaultTtl
    IN Max2(MinTtl, Min2(ttl, MaxTtl))

\* group_id of a checkout request: ok = FALSE is the 400 answer, filter = 0
\* is "no group condition in the query"
ParseGroup(raw) ==
    IF raw.t \notin {"absent", "null", "emptystr"}
    THEN LET conv == PyInt(raw)
         IN IF conv.ok THEN [ok |-> TRUE, filter |-> conv.v]
                       ELSE [ok |-> FALSE, filter |-> 0]
    ELSE [ok |-> TRUE, filter |-> 0]

NoReq == [op |-> "none", group |-> 0, ttl |-> 0, ttl_raw |-> JAbsent,
          lease_id |-> 0, result |-> "none", owner |-> 0]
NoTx == [swept |-> {}, row |-> 0]
NoResp == [to |-> 0, code |-> 0, lease_id |-> 0, account_id |-> 0, expires_at |-> 0]

Reply(c, code) == [to |-> c, code |-> code, lease_id |-> 0, account_id |-> 0, expires_at |-> 0]

\* SweepExpired without its WHERE clause: DELETE FROM account_leases
SweepAll(ls, t) == {}

\* SweepExpired with the comparison turned round: expires_at >= CURRENT_TIMESTAMP
SweepExpiredFlipped(ls, t) == {l \in ls : ~(l.expires_at >= t)}

\* DELETE FROM account_leases WHERE expires_at <= CURRENT_TIMESTAMP
SweepExpired(ls, t) == {l \in ls : ~(l.expires_at <= t)}

\* HasLease looking the account up in the lease_id column
HasLeaseWrongColumn(ls, a) == \E l \in ls : l.lease_id = a

\* a row of account_leases with this account_id exists
HasLease(ls, a) == \E l \in ls : l.account_id = a

Max(S) == CHOOSE x \in S : \A y \in S : x >= y

\* SelectCandidate with ORDER BY a.id DESC
SelectCandidateHighest(accs, ls, filter) ==
    LET cands == {a \in DOMAIN accs :
                     /\ accs[a].status = "active"
                     /\ (filter # 0 => accs[a].group_id = filter)
                     /\ ~(\E l \in ls : l.account_id = a)}
    IN IF cands = {} THEN 0 ELSE Max(cands)

\* the SELECT of checkout: lowest active account of the group without a lease
SelectCandidate(accs, ls, filter) ==
    LET cands == {a \in DOMAIN accs :
                     /\ accs[a].status = "active"
                     /\ (filter # 0 => accs[a].group_id = filter)
                     /\ ~HasLease(ls, a)}
    IN IF cands = {} THEN 0 ELSE Min(cands)

\* --------------------------------------------------- refresh orchestrator
Runners == {1, 2}
\* the refresh_runs ids handed out: a run and the invocation after it
RunIds == {1, 2}
ResumeKeys == {"manual", "scheduled"}
RunTickSteps == {ResumeTtl + 1}
ResumeTickSteps == {ResumeTtl, ResumeTtl + 1}
\* what the validation of one account comes to: the validator's verdict
\* ("throttled": a failure whose error text is rate-limit shaped), an
\* exception out of the worker, or a stored token that does not decrypt
Outcomes == {"success", "failed", "throttled", "raised", "undecryptable"}
CoreOutcomes == {"success", "failed", "throttled"}
RunDelays == {0, 1, 5, 9, 10, 11, 30, 60}
PaceBatchSizes == {1, 3}
RunBatchSizes == {1, 2}

\* the connection of runner r, as a holder of the write lock
RunConn(r) == 10 + r

RECURSIVE SortedIds(_)
\* ORDER BY id
SortedIds(S) ==
    IF S = {} THEN <<>>
    ELSE LET m == CHOOSE x \in S : \A y \in S : x <= y
         IN <<m>> \o SortedIds(S \ {m})

\* SELECT id, ... FROM accounts WHERE status = 'active' ORDER BY id
ActiveAccounts(accs) == SortedIds({a \in DOMAIN accs : accs[a].status = "active"})

SeqIds(q) == {q[i] : i \in 1..Len(q)}

\* one settings row for the checkpoints of every scope
ResumeStateKeyShared(resume_key) == "manual"

\* _resume_state_key: the settings row of a scope's checkpoint,
\* refresh_resume_state_<resume_key>, named here by the scope
ResumeStateKey(resume_key) == resume_key

NoCheckpoint == [status |-> "none", last_id |-> 0, total |-> 0, processed |-> 0,
                 updated_at |-> 0]

NoRun == [run_id |-> 0, refresh_type |-> "none", resume_key |-> "none",
          resume |-> FALSE,
          todo |-> <<>>, total_all |-> 0, batch_start |-> 0, waiting |-> {},
          delay_seconds |-> 0, current_delay |-> 0, max_workers |-> 0,
          batch_size |-> 0, success_count |-> 0, failed_count |-> 0,
          failed_list |-> <<>>, throttle_hits |-> 0, state |-> NoCheckpoint,
          plogs |-> <<>>, has_pstate |-> FALSE, detached |-> FALSE]

\* an event of the stream; the fields an event type does not carry are 0 or <<>>
Event(type, run_id, id, current, total, success_count, failed_count, failed_list, seconds) ==
    [type |-> type, run_id |-> run_id, id |-> id, current |-> current,
     total |-> total, success_count |-> success_count,
     failed_count |-> failed_count, failed_list |-> failed_list,
     seconds |-> seconds]

\* the staleness test with >= for >
GetResumeStateEarly(ck, t) ==
    IF ck.status # "running" THEN NoCheckpoint
    ELSE IF t - ck.updated_at >= ResumeTtl THEN NoCheckpoint
    ELSE ck

\* _get_resume_state: the checkpoint when it is running and not stale
GetResumeState(ck, t) ==
    IF ck.status # "running" THEN NoCheckpoint
    ELSE IF t - ck.updated_at > ResumeTtl THEN NoCheckpoint
    ELSE ck

\* the accounts a resumed run keeps, with >= for >
ResumeFilterInclusive(accs, start_from_id) ==
    SelectSeq(accs, LAMBDA a : a >= start_from_id)

\* [acc for acc in accounts if acc['id'] > start_from_id]
ResumeFilter(accs, start_from_id) ==
    SelectSeq(accs, LAMBDA a : a > start_from_id)

\* accounts[batch_start:batch_start + batch_size]
BatchOf(todo, batch_start, batch_size) ==
    SubSeq(todo, batch_start + 1, Min2(batch_start + batch_size, Len(todo)))

\* the batch's first id for its last
BatchFirstId(batch) == batch[1]

\* batch[-1]['id']
BatchLastId(batch) == batch[Len(batch)]

\* the state of the store's orchestrator tables after init_db, no run going
\* the stored values of a setting: no row, NULL, '', text that is no
\* integer, and integers as text
SettingInputs == {JAbsent, JNull, JEmpty, JBadStr, JStr(-5), JStr(0), JStr(1), JStr(3),
                  JStr(25), JStr(61), JStr(150), JStr(1000)}
ConfigTotals == {0, 1, 3, 5, 19, 20, 21, 99, 100, 101, 499, 500, 1000, 2000, 2500}
ConfigModes == {"full", "default", "group"}
NoResult == [delay_seconds |-> -1, max_workers |-> -1, batch_size |-> -1]
NoConfig == [raw_delay |-> JAbsent, raw_workers |-> JAbsent, raw_batch |-> JAbsent,
             total |-> 0, mode |-> "none", result |-> NoResult]

\* _get_setting_int_conn: the row's value, '' if there is none, through int()
GetSettingIntConn(raw, default) ==
    LET r == PyInt(DataGet(raw, JEmpty)) IN IF r.ok THEN r.v ELSE default

\* max(lo, min(v, hi)) without the min
ClampSettingNoCeiling(v, lo, hi) == Max2(lo, v)

\* max(lo, min(v, hi))
ClampSetting(v, lo, hi) == Max2(lo, Min2(v, hi))

\* the branch of the mode and of the candidate count
TuneConfig(c, total, mode) ==
    IF mode = "full"
    THEN [delay_seconds |-> Max2(c.delay_seconds, 2),
          max_workers |-> Min2(c.max_workers, 6),
          batch_size |-> Min2(c.batch_size, 30)]
    ELSE IF total >= 2000
    THEN [delay_seconds |-> Min2(c.delay_seconds, 1),
          max_workers |-> Max2(c.max_workers, 14),
          batch_size |-> Max2(c.batch_size, 100)]
    ELSE IF total >= 1000
    THEN [delay_seconds |-> Min2(c.delay_seconds, 2),
          max_workers |-> Max2(c.max_workers, 12),
          batch_size |-> Max2(c.batch_size, 80)]
    ELSE IF total >= 500
    THEN [delay_seconds |-> Min2(c.delay_seconds, 3),
          max_workers |-> Max2(c.max_workers, 10),
          batch_size |-> Max2(c.batch_size, 60)]
    ELSE c

\* the fitting without the shrinking to the candidate count
FitConfigNoShrink(c, total) ==
    IF total > 0 /\ c.batch_size < c.max_workers
    THEN [c EXCEPT !.batch_size = c.max_workers]
    ELSE c

\* if total > 0: the shrinking to the candidate count, then batch >= workers
FitConfig(c, total) ==
    IF total > 0
    THEN LET w == IF total < c.max_workers THEN Max2(1, total) ELSE c.max_workers
             b == IF total < c.batch_size THEN Max2(1, total) ELSE c.batch_size
         IN [c EXCEPT !.max_workers = w, !.batch_size = IF b < w THEN w ELSE b]
    ELSE c

ResolveRefreshConfig(raw_delay, raw_workers, raw_batch, total, mode) ==
    LET c == [delay_seconds |-> ClampSetting(GetSettingIntConn(raw_delay, DefaultDelay), 0, 60),
              max_workers |-> ClampSetting(GetSettingIntConn(raw_workers, EnvMaxWorkers), 1, 20),
              batch_size |-> ClampSetting(GetSettingIntConn(raw_batch, EnvBatchSize), 1, 100)]
    IN FitConfig(TuneConfig(c, total, mode), total)

\* what one requests.post of the validator comes to: an HTTP status, or 0
\* for an exception of the transport (timeout, connection error)
ResponseKinds == {0, 200, 400, 429, 500, 502, 503, 504}
\* retry_status of post_with_backoff
RetryStatus == {429, 500, 502, 503, 504}
\* the answers the token endpoint would give to one call's successive posts:
\* one more than the loop of post_with_backoff can use
ScriptLen == BackoffRetries + 2
\* no call of test_refresh_token yet.  attempt is the loop variable, posts
\* counts the calls of requests.post, sleeps those of time.sleep; result is
\* "none", "success", "failed" (an answer other than 200) or "raised" (the
\* transport's exception, reported as a failure by test_refresh_token)
\* body is the body of every answer of the script, error the message
\* test_refresh_token returns with a failure
NoValidation == [responses |-> <<>>, attempt |-> 0, posts |-> 0, sleeps |-> 0,
                 state |-> "none", result |-> "none", status |-> 0,
                 body |-> "none", error |-> "none"]
\* The body of an answer other than 200, by what test_refresh_token makes
\* of it: JSON whose error_description (or error) has one of the keywords
\* of _is_throttle_error, JSON whose error_description has none, JSON
\* with neither field, and a body that is no JSON (a proxy's HTML page)
BodyKinds == {"json_throttle", "json_other", "json_empty", "not_json"}
\* the scripts of answers of a throttled endpoint
ThrottleKinds == {0, 200, 400, 429}
\* the stored values of the three refresh settings, for the trigger paths
\* the stored worker count and batch size when two scheduled runs overlap
OverlapSettings == {JAbsent, JStr(1)}
TriggerSettings == {JAbsent, JBadStr, JStr(-5), JStr(3), JStr(25), JStr(150)}

\* A process is one load of the module: it has one SCHEDULER_INSTANCE_ID
\* (a fresh uuid4), calls init_scheduler once, and its periodic run is the
\* run of the runner of the same number.
Procs == {1, 2}
SchedTickSteps == {60}

\* no settings row scheduler_lock
NoLock == [owner |-> 0, updated_at |-> -1]
\* a process that has not loaded the module yet.  state: "init", then "up"
\* (BackgroundScheduler started with both jobs) or "off" (init_scheduler
\* returned None), then "dead"; beat is how the last heartbeat job ended
NoScheduler == [state |-> "init", next_beat |-> 0, beat |-> "none"]

SchedInit ==
    /\ scheduler_lock = NoLock
    /\ scheduler = [p \in Procs |-> NoScheduler]

OrchInit ==
    /\ resume_states = [k \in ResumeKeys |-> NoCheckpoint]
    /\ refresh_runs = <<>>
    /\ rpc = [r \in Runners |-> "idle"]
    /\ run = [r \in Runners |-> NoRun]
    /\ events = [r \in Runners |-> <<>>]
    /\ SchedInit
    /\ validation = NoValidation
    /\ inflight = [r \in Runners |-> {}]

\* -------------------------------------------------------------------- Init
Init ==
    /\ now = 0
    /\ accounts = [a \in {} |-> 0]
    /\ nextAccount = 1
    /\ leases = {}
    /\ nextLease = LeaseIdBase + 1
    /\ refresh_logs = <<>>
    /\ audit_logs = EmptyBag
    /\ dbLock = 0
    /\ pc = [c \in Callers |-> "idle"]
    /\ req = [c \in Callers |-> NoReq]
    /\ tx = [c \in Callers |-> NoTx]
    /\ resp = NoResp
    /\ OrchInit
    /\ config = NoConfig

\* ------------------------------------------------- POST /api/external/checkout
InFlightCheckouts == Cardinality({c \in Callers : pc[c] \in {"co_begin", "co_commit"}})

\* the parsing of the request body, up to get_db()
CheckoutRequest(c, graw, traw, owner) ==
    /\ pc[c] = "idle"
    /\ (nextLease - LeaseIdBase) + InFlightCheckouts <= MaxLeases
    /\ LET g == ParseGroup(graw)
       IN IF ~g.ok
          THEN /\ resp' = Reply(c, 400)
               /\ UNCHANGED <<pc, req>>
          ELSE /\ pc' = [pc EXCEPT ![c] = "co_begin"]
               /\ req' = [req EXCEPT ![c] =
                            [op |-> "checkout", group |-> g.filter,
                             ttl |-> EffectiveTtl(traw), ttl_raw |-> traw,
                             lease_id |-> 0, result |-> "none", owner |-> owner]]
               /\ resp' = NoResp
    /\ UNCHANGED <<now, storeVars, nextLease, audit_logs, dbLock, tx>>
    /\ UNCHANGED <<orchVars, schedVars, validation, inflight>>

\* CanBeginImmediate of a plain BEGIN: deferred, it takes no lock
CanBeginDeferred(lock) == TRUE

\* BEGIN IMMEDIATE waits until no other connection holds the write lock
CanBeginImmediate(lock) == lock = 0

\* BEGIN IMMEDIATE, the sweep of expired leases and the SELECT
CheckoutBegin(c) ==
    /\ pc[c] = "co_begin"
    /\ CanBeginImmediate(dbLock)
    /\ dbLock' = c
    /\ LET view == SweepExpired(leases, now)
       IN tx' = [tx EXCEPT ![c] =
                   [swept |-> leases \ view,
                    row |-> SelectCandidate(accounts, view, req[c].group)]]
    /\ pc' = [pc EXCEPT ![c] = "co_commit"]
    /\ resp' = NoResp
    /\ UNCHANGED <<now, storeVars, nextLease, audit_logs, req>>
    /\ UNCHANGED <<orchVars, schedVars, validation, inflight>>

\* log_audit: one more row of audit_logs
LogAudit(logs, action, resource_id, lease_id, result) ==
    logs (+) SetToBag({[action |-> action, resource_id |-> resource_id,
                        lease_id |-> lease_id, result |-> result]})

\* no row: commit and 404; a row: INSERT the lease, commit, log_audit and the
\* success response, or ROLLBACK and 500 when the INSERT raises (account_id
\* is UNIQUE)
CheckoutCommit(c) ==
    /\ pc[c] = "co_commit"
    /\ LET kept == leases \ tx[c].swept
           row == tx[c].row
           expires_at == now + req[c].ttl
           lease == [lease_id |-> nextLease, account_id |-> row,
                     owner |-> req[c].owner, expires_at |-> expires_at,
                     created_at |-> now]
       IN IF row = 0
          THEN /\ leases' = kept
               /\ resp' = Reply(c, 404)
               /\ UNCHANGED <<nextLease, audit_logs>>
          ELSE IF HasLease(kept, row)
          THEN /\ resp' = Reply(c, 500)
               /\ UNCHANGED <<leases, nextLease, audit_logs>>
          ELSE /\ leases' = kept \cup {lease}
               /\ nextLease' = nextLease + 1
               /\ audit_logs' = LogAudit(audit_logs, "checkout", row, nextLease, "none")
               /\ resp' = [to |-> c, code |-> 200, lease_id |-> nextLease,
                           account_id |-> row, expires_at |-> expires_at]
    /\ pc' = [pc EXCEPT ![c] = "idle"]
    /\ req' = [req EXCEPT ![c] = NoReq]
    /\ tx' = [tx EXCEPT ![c] = NoTx]
    /\ dbLock' = IF dbLock = c THEN 0 ELSE dbLock
    /\ UNCHANGED <<now, accounts, nextAccount, refresh_logs>>
    /\ UNCHANGED <<orchVars, schedVars, validation, inflight>>

\* --------------------------------------- POST /api/external/checkout/complete
CompleteLeaseIds == ((LeaseIdBase + 1)..(nextLease - 1)) \cup {0, BogusLease}

\* the request body and SELECT account_id FROM account_leases WHERE lease_id = ?
CompleteSelect(c, lease_id, result) ==
    /\ pc[c] = "idle"
    /\ LET rows == {l \in leases : l.lease_id = lease_id}
       IN IF lease_id = 0
          THEN /\ resp' = Reply(c, 400)
               /\ UNCHANGED <<pc, req, tx>>
          ELSE IF rows = {}
          THEN /\ resp' = [Reply(c, 404) EXCEPT !.lease_id = lease_id]
               /\ UNCHANGED <<pc, req, tx>>
          ELSE /\ tx' = [tx EXCEPT ![c] =
                           [swept |-> {}, row |-> (CHOOSE l \in rows : TRUE).account_id]]
               /\ req' = [req EXCEPT ![c] =
                            [op |-> "complete", group |-> 0, ttl |-> 0,
                             ttl_raw |-> JAbsent, lease_id |-> lease_id,
                             result |-> result, owner |-> 0]]
               /\ pc' = [pc EXCEPT ![c] = "cp_delete"]
               /\ resp' = NoResp
    /\ UNCHANGED <<now, storeVars, nextLease, audit_logs, dbLock>>
    /\ UNCHANGED <<orchVars, schedVars, validation, inflight>>

\* DeleteLease matching the lease id against the account_id column
DeleteLeaseWrongColumn(ls, lease_id) == {l \in ls : l.account_id # lease_id}

\* DeleteLease by the owner of the lease: every lease of that caller goes
DeleteLeaseByOwner(ls, lease_id) ==
    {l \in ls : \A m \in ls : m.lease_id = lease_id => l.owner # m.owner}

\* DELETE FROM account_leases WHERE lease_id = ?
DeleteLease(ls, lease_id) == {l \in ls : l.lease_id # lease_id}

\* the DELETE, the commit, log_audit and the success response
CompleteDelete(c) ==
    /\ pc[c] = "cp_delete"
    /\ dbLock = 0
    /\ leases' = DeleteLease(leases, req[c].lease_id)
    /\ audit_logs' = LogAudit(audit_logs, "checkout_complete", tx[c].row,
                              req[c].lease_id, req[c].result)
    /\ resp' = [Reply(c, 200) EXCEPT !.lease_id = req[c].lease_id]
    /\ pc' = [pc EXCEPT ![c] = "idle"]
    /\ req' = [req EXCEPT ![c] = NoReq]
    /\ tx' = [tx EXCEPT ![c] = NoTx]
    /\ UNCHANGED <<now, accounts, nextAccount, refresh_logs, nextLease, dbLock>>
    /\ UNCHANGED <<orchVars, schedVars, validation, inflight>>

\* ------------------------------------------------------ administrative layer
\* add_account: a new row, status 'active' by the column default
AddAccount(g, limit) ==
    /\ nextAccount <= limit
    /\ dbLock = 0
    /\ accounts' = [a \in DOMAIN accounts \cup {nextAccount} |->
                      IF a = nextAccount
                      THEN [status |-> "active", group_id |-> g, last_refresh_at |-> -1]
                      ELSE accounts[a]]
    /\ nextAccount' = nextAccount + 1
    /\ resp' = NoResp
    /\ UNCHANGED <<now, leases, refresh_logs, nextLease, audit_logs,
                   dbLock, pc, req, tx>>
    /\ UNCHANGED <<orchVars, schedVars, validation, inflight>>

\* UpdateAccountStatus that also releases the account's lease
UpdateAccountStatusDropsLease(a, s) ==
    /\ a \in DOMAIN accounts
    /\ dbLock = 0
    /\ accounts' = [accounts EXCEPT ![a].status = s]
    /\ leases' = {l \in leases : l.account_id # a}
    /\ resp' = NoResp
    /\ UNCHANGED <<now, nextAccount, refresh_logs, nextLease,
                   audit_logs, dbLock, pc, req, tx>>
    /\ UNCHANGED <<orchVars, schedVars, validation, inflight>>

\* api_update_account_status
UpdateAccountStatus(a, s) ==
    /\ a \in DOMAIN accounts
    /\ dbLock = 0
    /\ accounts' = [accounts EXCEPT ![a].status = s]
    /\ resp' = NoResp
    /\ UNCHANGED <<now, nextAccount, leases, refresh_logs, nextLease,
                   audit_logs, dbLock, pc, req, tx>>
    /\ UNCHANGED <<orchVars, schedVars, validation, inflight>>

\* delete_account_by_id: the account with its lease and its logs
DeleteAccount(a) ==
    /\ a \in DOMAIN accounts
    /\ dbLock = 0
    /\ leases' = {l \in leases : l.account_id # a}
    /\ refresh_logs' = SelectSeq(refresh_logs, LAMBDA e : e.account_id # a)
    /\ accounts' = [b \in DOMAIN accounts \ {a} |-> accounts[b]]
    /\ resp' = NoResp
    /\ UNCHANGED <<now, nextAccount, nextLease, audit_logs, dbLock,
                   pc, req, tx>>
    /\ UNCHANGED <<orchVars, schedVars, validation, inflight>>

\* log_refresh_result, as api_refresh_account calls it for an existing account
LogRefreshResult(a, status) ==
    /\ a \in DOMAIN accounts
    /\ dbLock = 0
    /\ Len(refresh_logs) < MaxLogs
    /\ refresh_logs' = Append(refresh_logs, [account_id |-> a, status |-> status])
    /\ accounts' = IF status = "success"
                   THEN [accounts EXCEPT ![a].last_refresh_at = now]
                   ELSE accounts
    /\ resp' = NoResp
    /\ UNCHANGED <<now, nextAccount, leases, nextLease, audit_logs,
                   dbLock, pc, req, tx>>
    /\ UNCHANGED <<orchVars, schedVars, validation, inflight>>

\* the clock
Tick(d, horizon) ==
    /\ now + d <= horizon
    /\ now' = now + d
    /\ resp' = NoResp
    /\ UNCHANGED <<storeVars, nextLease, audit_logs, dbLock, pc, req, tx>>
    /\ UNCHANGED <<orchVars, schedVars, validation, inflight>>

\* ------------------------------------------- _refresh_accounts_generator
\* One run is one connection.  Its INSERTs and UPDATEs stay uncommitted (in
\* run[r].plogs, run[r].has_pstate) until conn.commit(); the first of them
\* takes the write lock.  A process death or conn.close() drops them.

\* the generator up to its first yield: the checkpoint read, the resume
\* filter, the first checkpoint write with the refresh_runs row and their
\* commit, and the start event
RunStart(r, refresh_type, resume_key, resume, delay_seconds, max_workers, batch_size) ==
    /\ rpc[r] = "idle"
    /\ dbLock = 0
    /\ Len(refresh_runs) + 1 \in RunIds
    /\ LET all == ActiveAccounts(accounts)
           total_all == Len(all)
           resume_state == IF resume THEN GetResumeState(resume_states[ResumeStateKey(resume_key)], now)
                           ELSE NoCheckpoint
           resumed == resume_state # NoCheckpoint /\ resume_state.last_id # 0
           start_from_id == IF resumed THEN resume_state.last_id ELSE 0
           todo == IF start_from_id # 0 THEN ResumeFilter(all, start_from_id) ELSE all
           total == Len(todo)
           state == [status |-> "running", last_id |-> start_from_id,
                     total |-> total_all, processed |-> total_all - total,
                     updated_at |-> now]
           run_id == Len(refresh_runs) + 1
       IN /\ resume_states' = [resume_states EXCEPT ![ResumeStateKey(resume_key)] = state]
          /\ refresh_runs' = Append(refresh_runs,
                [run_id |-> run_id, refresh_type |-> refresh_type, total |-> total,
                 total_all |-> total_all, resumed |-> resumed,
                 skipped |-> total_all - total, max_workers |-> max_workers,
                 batch_size |-> batch_size, delay_seconds |-> delay_seconds,
                 status |-> "running", success_count |-> 0, failed_count |-> 0])
          /\ run' = [run EXCEPT ![r] =
                [NoRun EXCEPT !.run_id = run_id, !.refresh_type = refresh_type,
                              !.resume_key = resume_key, !.resume = resume,
                              !.todo = todo,
                              !.total_all = total_all,
                              !.waiting = SeqIds(BatchOf(todo, 0, batch_size)),
                              !.delay_seconds = delay_seconds,
                              !.current_delay = delay_seconds,
                              !.max_workers = max_workers,
                              !.batch_size = batch_size, !.state = state]]
          /\ events' = [events EXCEPT ![r] =
                <<Event("start", run_id, 0, 0, total, 0, 0, <<>>, delay_seconds)>>]
          /\ rpc' = [rpc EXCEPT ![r] = IF total = 0 THEN "empty" ELSE "running"]
    /\ resp' = NoResp
    /\ UNCHANGED <<config, schedVars, validation, inflight>>
    /\ UNCHANGED <<now, storeVars, leases, nextLease, audit_logs, dbLock, pc, req, tx>>

\* UPDATE refresh_runs SET ..., status = 'completed' that leaves the status out
FinishRunRowNoStatus(row, success_count, failed_count) ==
    [row EXCEPT !.success_count = success_count, !.failed_count = failed_count]

\* UPDATE refresh_runs SET finished_at, success_count, failed_count, status
FinishRunRow(row, success_count, failed_count) ==
    [row EXCEPT !.success_count = success_count, !.failed_count = failed_count,
                !.status = "completed"]

\* total == 0: the refresh_runs row is completed and committed, then
\* _complete_resume_state writes the checkpoint (no commit follows it), then
\* the complete event
RunCompleteEmpty(r) ==
    /\ rpc[r] = "empty"
    /\ dbLock = 0
    /\ refresh_runs' = [refresh_runs EXCEPT ![run[r].run_id] = FinishRunRow(@, 0, 0)]
    /\ run' = [run EXCEPT ![r].state.status = "completed", ![r].has_pstate = TRUE]
    /\ dbLock' = RunConn(r)
    /\ events' = [events EXCEPT ![r] =
          Append(@, Event("complete", run[r].run_id, 0, 0, Len(run[r].todo), 0, 0, <<>>, 0))]
    /\ rpc' = [rpc EXCEPT ![r] = "closing"]
    /\ resp' = NoResp
    /\ UNCHANGED <<config, schedVars, validation, inflight>>
    /\ UNCHANGED <<now, storeVars, leases, nextLease, audit_logs, pc, req, tx, resume_states>>

\* a failed result ends the batch: the results still awaited are given up
RemainingAfterBreak(waiting, a, success) == IF success THEN waiting \ {a} ELSE {}

\* a pool that starts every submitted task at once
PoolHasRoomAlways(busy, max_workers) == TRUE

\* ThreadPoolExecutor(max_workers): a task leaves the work queue only when
\* fewer than max_workers threads are busy
PoolHasRoom(busy, max_workers) == Cardinality(busy) < max_workers

\* the executor's work queue is first in, first out, and a batch is
\* submitted in the order of its accounts
NextQueued(queued) == CHOOSE a \in queued : \A b \in queued : a <= b

\* a worker thread of run r takes the next submitted account off the queue
\* and begins _refresh_account_worker on it
WorkerStart(r) ==
    /\ rpc[r] = "running"
    /\ run[r].waiting \ inflight[r] # {}
    /\ PoolHasRoom(inflight[r], run[r].max_workers)
    /\ inflight' = [inflight EXCEPT ![r] = @ \cup {NextQueued(run[r].waiting \ @)}]
    /\ resp' = NoResp
    /\ UNCHANGED <<now, storeVars, nextLease, audit_logs, dbLock, pc, req, tx,
                   orchVars, schedVars, validation>>

\* as_completed: the futures of the batch still to be consumed
RemainingAfter(waiting, a, success) == waiting \ {a}

\* the progress event yielded only in the success branch
AfterResultEventsOnSuccess(evs, ev, success) == IF success THEN Append(evs, ev) ELSE evs

\* yield the progress event of a result
AfterResultEvents(evs, ev, success) == Append(evs, ev)

\* one pass of the "for future in as_completed" loop: the worker's result
\* for account a (any failure is a failed result), the log row and the
\* account update on the connection, the counters and the progress event
RunResult(r, a, outcome) ==
    /\ rpc[r] = "running"
    /\ a \in run[r].waiting
    /\ dbLock \in {0, RunConn(r)}
    /\ LET success == outcome = "success"
           throttled == outcome = "throttled"
           success_count == run[r].success_count + (IF success THEN 1 ELSE 0)
           failed_count == run[r].failed_count + (IF success THEN 0 ELSE 1)
           failed_list == IF success THEN run[r].failed_list
                          ELSE Append(run[r].failed_list, [id |-> a, error |-> outcome])
           processed == run[r].success_count + run[r].failed_count + 1
       IN /\ run' = [run EXCEPT
                ![r].plogs = Append(@, [account_id |-> a,
                                        status |-> IF success THEN "success" ELSE "failed",
                                        at |-> now]),
                ![r].success_count = success_count,
                ![r].failed_count = failed_count,
                ![r].failed_list = failed_list,
                ![r].throttle_hits = @ + (IF throttled THEN 1 ELSE 0),
                ![r].waiting = RemainingAfter(@, a, success)]
          /\ events' = [events EXCEPT ![r] =
                AfterResultEvents(@, Event("progress", run[r].run_id, a, processed,
                                           Len(run[r].todo), success_count,
                                           failed_count, <<>>, 0), success)]
    /\ dbLock' = RunConn(r)
    /\ resp' = NoResp
    /\ inflight' = [inflight EXCEPT ![r] = @ \ {a}]
    /\ UNCHANGED <<config, schedVars, validation>>
    /\ UNCHANGED <<now, storeVars, leases, nextLease, audit_logs, pc, req, tx,
                   resume_states, refresh_runs, rpc>>

\* conn.commit() that loses the batch's log rows
CommitLogsDropped(logs, plogs) == logs

\* the account_refresh_logs rows a commit makes durable
CommitLogs(logs, plogs) ==
    logs \o [i \in 1..Len(plogs) |->
                [account_id |-> plogs[i].account_id, status |-> plogs[i].status]]

\* the UPDATE of last_refresh_at run for every result, failed ones too
CommitAccountsAnyResult(accs, plogs) ==
    [a \in DOMAIN accs |->
        IF \E i \in 1..Len(plogs) : plogs[i].account_id = a
        THEN [accs[a] EXCEPT !.last_refresh_at =
                 plogs[CHOOSE i \in 1..Len(plogs) : plogs[i].account_id = a].at]
        ELSE accs[a]]

\* UPDATE accounts SET last_refresh_at of the batch's successes, at commit
CommitAccounts(accs, plogs) ==
    [a \in DOMAIN accs |->
        IF \E i \in 1..Len(plogs) : plogs[i].account_id = a /\ plogs[i].status = "success"
        THEN [accs[a] EXCEPT !.last_refresh_at =
                 plogs[CHOOSE i \in 1..Len(plogs) :
                           plogs[i].account_id = a /\ plogs[i].status = "success"].at]
        ELSE accs[a]]

\* the adaptive delay after a batch
NextDelay(current_delay, delay_seconds, throttle_hits) ==
    IF throttle_hits > 0
    THEN Min2(BackoffMax, Max2(current_delay, 1) + Min2(3, throttle_hits))
    ELSE IF current_delay > delay_seconds
         THEN Max2(delay_seconds, current_delay - 1)
         ELSE current_delay

\* the end of a batch: the checkpoint write, the commit of the batch, the
\* adaptive delay, the delay event, and the submission of the next batch
BatchCommit(r) ==
    /\ rpc[r] = "running"
    /\ run[r].waiting = {}
    /\ dbLock \in {0, RunConn(r)}
    /\ LET batch == BatchOf(run[r].todo, run[r].batch_start, run[r].batch_size)
           total == Len(run[r].todo)
           done == run[r].batch_start + Len(batch)
           state == [run[r].state EXCEPT
                        !.last_id = BatchLastId(batch),
                        !.processed = run[r].total_all - (total - done),
                        !.updated_at = now]
           current_delay == NextDelay(run[r].current_delay, run[r].delay_seconds,
                                      run[r].throttle_hits)
           more == run[r].batch_start + run[r].batch_size < total
       IN /\ resume_states' = [resume_states EXCEPT ![ResumeStateKey(run[r].resume_key)] = state]
          /\ refresh_logs' = CommitLogs(refresh_logs, run[r].plogs)
          /\ accounts' = CommitAccounts(accounts, run[r].plogs)
          /\ run' = [run EXCEPT
                ![r].state = state, ![r].plogs = <<>>, ![r].has_pstate = FALSE,
                ![r].current_delay = current_delay, ![r].throttle_hits = 0,
                ![r].batch_start = @ + run[r].batch_size,
                ![r].waiting = SeqIds(BatchOf(run[r].todo,
                                              run[r].batch_start + run[r].batch_size,
                                              run[r].batch_size))]
          /\ events' = [events EXCEPT ![r] =
                IF current_delay > 0 /\ more
                THEN Append(@, Event("delay", run[r].run_id, 0, 0, total, 0, 0, <<>>,
                                     current_delay))
                ELSE @]
          /\ rpc' = [rpc EXCEPT ![r] = IF more THEN "running" ELSE "completing"]
    /\ dbLock' = 0
    /\ resp' = NoResp
    /\ UNCHANGED <<config, schedVars, validation, inflight>>
    /\ UNCHANGED <<now, nextAccount, leases, nextLease, audit_logs, pc, req, tx,
                   refresh_runs>>

\* after the last batch: _complete_resume_state, the refresh_runs row, the
\* commit, and the complete event
RunComplete(r) ==
    /\ rpc[r] = "completing"
    /\ dbLock = 0
    /\ LET state == [run[r].state EXCEPT !.status = "completed", !.updated_at = now]
       IN /\ resume_states' = [resume_states EXCEPT ![ResumeStateKey(run[r].resume_key)] = state]
          /\ run' = [run EXCEPT ![r].state = state]
    /\ refresh_runs' = [refresh_runs EXCEPT ![run[r].run_id] =
          FinishRunRow(@, run[r].success_count, run[r].failed_count)]
    /\ events' = [events EXCEPT ![r] =
          Append(@, Event("complete", run[r].run_id, 0, 0, Len(run[r].todo),
                          run[r].success_count, run[r].failed_count,
                          run[r].failed_list, 0))]
    /\ rpc' = [rpc EXCEPT ![r] = "closing"]
    /\ resp' = NoResp
    /\ UNCHANGED <<config, schedVars, validation, inflight>>
    /\ UNCHANGED <<now, storeVars, leases, nextLease, audit_logs, dbLock, pc, req, tx>>

\* the caller's finally: conn.close().  Writes not committed are rolled back.
RunClose(r) ==
    /\ rpc[r] = "closing"
    /\ dbLock' = IF dbLock = RunConn(r) THEN 0 ELSE dbLock
    /\ run' = [run EXCEPT ![r] = NoRun]
    /\ rpc' = [rpc EXCEPT ![r] = "idle"]
    /\ resp' = NoResp
    /\ UNCHANGED <<config, schedVars, validation, inflight>>
    /\ UNCHANGED <<now, storeVars, leases, nextLease, audit_logs, pc, req, tx,
                   resume_states, refresh_runs, events>>

\* the process dies in the middle of a run: only committed writes survive
Crash(r) ==
    /\ rpc[r] \in {"running", "empty", "completing"}
    /\ dbLock' = IF dbLock = RunConn(r) THEN 0 ELSE dbLock
    /\ run' = [run EXCEPT ![r] = NoRun]
    /\ rpc' = [rpc EXCEPT ![r] = "idle"]
    /\ events' = [events EXCEPT ![r] = <<>>]
    /\ resp' = NoResp
    /\ inflight' = [inflight EXCEPT ![r] = {}]
    /\ UNCHANGED <<config, schedVars, validation>>
    /\ UNCHANGED <<now, storeVars, leases, nextLease, audit_logs, pc, req, tx,
                   resume_states, refresh_runs>>

\* The consumer of the event stream of a manual run goes away: the client of
\* GET /api/accounts/refresh-all closes the connection.  The run is suspended
\* at a yield, or will be at its next one.
Disconnect(r) ==
    /\ rpc[r] \in {"running", "empty", "completing"}
    /\ run[r].refresh_type = "manual"
    /\ ~run[r].detached
    /\ run' = [run EXCEPT ![r].detached = TRUE]
    /\ resp' = NoResp
    /\ UNCHANGED <<config, schedVars, validation, inflight>>
    /\ UNCHANGED <<now, storeVars, nextLease, audit_logs, dbLock, pc, req, tx,
                   resume_states, refresh_runs, rpc, events>>

\* The WSGI server fails to write an event to the closed connection and
\* closes the response iterator: GeneratorExit is raised at the yield of
\* generate() and of _refresh_accounts_generator, the finally blocks shut
\* the executor down and close the connection, and what the batch has not
\* committed is discarded.
StreamClose(r) ==
    /\ rpc[r] \in {"running", "empty", "completing"}
    /\ run[r].detached
    /\ dbLock' = IF dbLock = RunConn(r) THEN 0 ELSE dbLock
    /\ run' = [run EXCEPT ![r] = NoRun]
    /\ rpc' = [rpc EXCEPT ![r] = "idle"]
    /\ events' = [events EXCEPT ![r] = <<>>]
    /\ resp' = NoResp
    /\ inflight' = [inflight EXCEPT ![r] = {}]
    /\ UNCHANGED <<config, schedVars, validation>>
    /\ UNCHANGED <<now, storeVars, nextLease, audit_logs, pc, req, tx,
                   resume_states, refresh_runs>>

\* -------------------------------------------------------- post_with_backoff
\* the retry that takes every answer other than 200 for a passing one
ShouldRetryAnyError(status, attempt) ==
    status # 200 /\ attempt < BackoffRetries

\* an answer (or, with 0, an exception) that sends post_with_backoff into
\* its next attempt: the exception branch tests attempt >= RETRIES and
\* re-raises, the answer branch tests the status and attempt < RETRIES
ShouldRetry(status, attempt) ==
    /\ status = 0 \/ status \in RetryStatus
    /\ attempt < BackoffRetries

\* test_refresh_token on what post_with_backoff hands back
ValidationResult(status) ==
    IF status = 0 THEN "raised"
    ELSE IF status = 200 THEN "success"
    ELSE "failed"

\* test_refresh_token's error message, by kind: the endpoint's text (with
\* or without a throttle keyword), the default of the two .get calls, the
\* text of the exception of res.json(), or that of the transport
ErrorMessage(status, body) ==
    IF status = 200 THEN "none"
    ELSE IF status = 0 THEN "request_exception"
    ELSE IF body = "json_throttle" THEN "throttle_text"
    ELSE IF body = "json_other" THEN "other_text"
    ELSE IF body = "json_empty" THEN "unknown_error"
    ELSE "json_exception"

\* _is_throttle_error: a keyword ('too many requests', 'throttle',
\* 'rate limit', '429', ...) occurs in the message
IsThrottleError(error) == error = "throttle_text"

\* One pass of the loop of post_with_backoff inside test_refresh_token: the
\* post, then either the sleep before the next pass or the end of the call.
PostAttempt ==
    /\ validation.state = "calling"
    /\ validation.attempt < BackoffRetries + 1
    /\ LET status == validation.responses[validation.attempt + 1]
       IN validation' =
             IF ShouldRetry(status, validation.attempt)
             THEN [validation EXCEPT !.attempt = @ + 1, !.posts = @ + 1,
                                     !.sleeps = @ + 1, !.status = status]
             ELSE [validation EXCEPT !.posts = @ + 1, !.state = "returned",
                                     !.status = status,
                                     !.result = ValidationResult(status),
                                     !.error = ErrorMessage(status, validation.body)]
    /\ resp' = NoResp
    /\ UNCHANGED <<now, storeVars, nextLease, audit_logs, dbLock, pc, req, tx,
                   orchVars, schedVars, inflight>>

\* ------------------------------------------------- _resolve_refresh_config
\* the call of _resolve_refresh_config on the three stored settings, the
\* candidate count and the mode that config holds
ResolveConfig ==
    /\ config.mode # "none"
    /\ config.result = NoResult
    /\ config' = [config EXCEPT !.result =
                     ResolveRefreshConfig(config.raw_delay, config.raw_workers,
                                          config.raw_batch, config.total, config.mode)]
    /\ resp' = NoResp
    /\ UNCHANGED <<now, storeVars, nextLease, audit_logs, dbLock, pc, req, tx,
                   resume_states, refresh_runs, rpc, run, events, schedVars, validation,
                   inflight>>

\* --------------------------------------------------------- scheduler lock
\* _write_scheduler_lock
WriteSchedulerLock(owner_id, t) == [owner |-> owner_id, updated_at |-> t]

\* the refusal of try_acquire_scheduler_lock: a lock whose heartbeat is
\* younger than the TTL and whose owner is another instance
LockHeldByOther(lock, p, t) ==
    /\ lock # NoLock
    /\ t - lock.updated_at < SchedulerLockTtl
    /\ lock.owner # p

\* try_acquire_scheduler_lock of instance p at time t.  BEGIN IMMEDIATE
\* raises "database is locked" while another connection holds the write
\* lock, and the except branch turns that into False.
TryAcquireSchedulerLock(lock, p, t, busy) ==
    IF busy \/ LockHeldByOther(lock, p, t)
    THEN [acquired |-> FALSE, lock |-> lock]
    ELSE [acquired |-> TRUE, lock |-> WriteSchedulerLock(p, t)]

\* the heartbeat that writes without looking at the owner
RefreshSchedulerLockAnyOwner(lock, p, t, busy) ==
    IF busy THEN [beat |-> "failed", lock |-> lock]
    ELSE [beat |-> "renewed", lock |-> WriteSchedulerLock(p, t)]

\* refresh_scheduler_lock of instance p at time t: the write happens only
\* when the stored owner is p; every exception is swallowed
RefreshSchedulerLock(lock, p, t, busy) ==
    IF busy THEN [beat |-> "failed", lock |-> lock]
    ELSE IF lock # NoLock /\ lock.owner = p
         THEN [beat |-> "renewed", lock |-> WriteSchedulerLock(p, t)]
         ELSE [beat |-> "skipped", lock |-> lock]

\* init_scheduler that tries for the lock again after a failed attempt
InitSchedulerRetries(p) ==
    /\ scheduler[p].state \in {"init", "off"}
    /\ LET got == TryAcquireSchedulerLock(scheduler_lock, p, now, dbLock # 0)
       IN /\ scheduler_lock' = got.lock
          /\ scheduler' = [scheduler EXCEPT ![p] =
                IF got.acquired
                THEN [state |-> "up", next_beat |-> now + HeartbeatSeconds,
                      beat |-> "none"]
                ELSE [state |-> "off", next_beat |-> 0, beat |-> "none"]]
    /\ resp' = NoResp
    /\ UNCHANGED <<now, storeVars, nextLease, audit_logs, dbLock, pc, req, tx,
                   orchVars, validation, inflight>>

\* the module is loaded by process p: init_scheduler, with
\* enable_scheduled_refresh at its default 'true'
InitScheduler(p) ==
    /\ scheduler[p].state = "init"
    /\ LET got == TryAcquireSchedulerLock(scheduler_lock, p, now, dbLock # 0)
       IN /\ scheduler_lock' = got.lock
          /\ scheduler' = [scheduler EXCEPT ![p] =
                IF got.acquired
                THEN [state |-> "up", next_beat |-> now + HeartbeatSeconds,
                      beat |-> "none"]
                ELSE [state |-> "off", next_beat |-> 0, beat |-> "none"]]
    /\ resp' = NoResp
    /\ UNCHANGED <<now, storeVars, nextLease, audit_logs, dbLock, pc, req, tx,
                   orchVars, validation, inflight>>

\* the interval job scheduler_lock_heartbeat of process p fires
HeartbeatJob(p) ==
    /\ scheduler[p].state = "up"
    /\ now = scheduler[p].next_beat
    /\ LET done == RefreshSchedulerLock(scheduler_lock, p, now, dbLock # 0)
       IN /\ scheduler_lock' = done.lock
          /\ scheduler' = [scheduler EXCEPT
                ![p].next_beat = now + HeartbeatSeconds,
                ![p].beat = done.beat]
    /\ resp' = NoResp
    /\ UNCHANGED <<now, storeVars, nextLease, audit_logs, dbLock, pc, req, tx,
                   orchVars, validation, inflight>>

\* trigger_refresh_internal's delay: int(delay_row['value']) if there is a
\* row, else 5; ok = FALSE where int() raises
TriggerDelay(raw) == PyInt(DataGet(raw, JInt(DefaultDelay)))

\* the periodic run on the checkpoint of the manual scope
ScheduledRefreshTaskManualScope(p) ==
    /\ scheduler[p].state = "up"
    /\ TriggerDelay(config.raw_delay).ok
    /\ RunStart(p, "scheduled", "manual", TRUE, TriggerDelay(config.raw_delay).v,
                ClampSetting(EnvMaxWorkers, 1, 20), ClampSetting(EnvBatchSize, 1, 100))

\* the job token_refresh of process p fires with use_cron_schedule on:
\* scheduled_refresh_task calls trigger_refresh_internal, which starts the
\* run with the stored delay as it is and the generator's default workers
\* and batch size; when int() raises there is no run and the exception is
\* printed.  Nothing on this path reads the scheduler lock.
ScheduledRefreshTask(p) ==
    /\ scheduler[p].state = "up"
    /\ TriggerDelay(config.raw_delay).ok
    /\ RunStart(p, "scheduled", "scheduled", TRUE, TriggerDelay(config.raw_delay).v,
                ClampSetting(EnvMaxWorkers, 1, 20), ClampSetting(EnvBatchSize, 1, 100))

\* A refresh stream is requested: api_refresh_all_accounts (type manual,
\* mode full), api_trigger_scheduled_refresh (type scheduled, mode group);
\* api_refresh_group_accounts resolves its configuration as the first does.
\* The run gets what _resolve_refresh_config makes of the stored settings
\* and the number of candidates.
StreamTrigger(r, refresh_type, mode, resume) ==
    LET c == ResolveRefreshConfig(config.raw_delay, config.raw_workers,
                                  config.raw_batch,
                                  Len(ActiveAccounts(accounts)), mode)
    IN RunStart(r, refresh_type, refresh_type, resume, c.delay_seconds,
                c.max_workers, c.batch_size)

\* process p ends between two jobs
ProcExit(p) ==
    /\ scheduler[p].state \in {"up", "off"}
    /\ rpc[p] = "idle"
    /\ scheduler' = [scheduler EXCEPT ![p] =
                        [state |-> "dead", next_beat |-> 0, beat |-> "none"]]
    /\ resp' = NoResp
    /\ UNCHANGED <<now, storeVars, nextLease, audit_logs, dbLock, pc, req, tx,
                   orchVars, scheduler_lock, validation, inflight>>

\* Time passes in the scheduler's world: never past a heartbeat that is due,
\* and only while every run in progress is waiting for a validation (what a
\* run does between two validations takes no time on this scale).
SchedTick(d) ==
    /\ \A p \in Procs : scheduler[p].state = "up" => now + d <= scheduler[p].next_beat
    /\ \A r \in Runners : rpc[r] = "idle" \/ (rpc[r] = "running" /\ run[r].waiting # {})
    /\ Tick(d, SchedMaxTime)

\* -------------------------------------------------------------------- Next
\* Spec: concurrent callers over one group, every lease asked for with
\* ttl_seconds=30
Next ==
    \/ \E c \in Callers : CheckoutRequest(c, JAbsent, ScenarioTtl, 0)
    \/ \E c \in Callers : CheckoutBegin(c)
    \/ \E c \in Callers : CheckoutCommit(c)
    \/ \E c \in Callers, l \in CompleteLeaseIds \ {0} : CompleteSelect(c, l, "success")
    \/ \E c \in Callers : CompleteDelete(c)
    \/ AddAccount(1, MaxAccounts)
    \/ \E a \in DOMAIN accounts, s \in Statuses : UpdateAccountStatus(a, s)
    \/ \E a \in DOMAIN accounts : DeleteAccount(a)
    \/ \E d \in TickSteps : Tick(d, MaxTime)

Spec == Init /\ [][Next]_vars

\* SpecSeq: one caller, every shape of group_id, accounts of two groups
NextSeq ==
    \/ \E g \in GroupInputs : CheckoutRequest(1, g, ScenarioTtl, 0)
    \/ CheckoutBegin(1)
    \/ CheckoutCommit(1)
    \/ \E l \in CompleteLeaseIds : CompleteSelect(1, l, "success")
    \/ CompleteDelete(1)
    \/ \E g \in Groups : AddAccount(g, SeqAccounts)
    \/ \E a \in DOMAIN accounts, s \in Statuses : UpdateAccountStatus(a, s)
    \/ \E d \in CoarseTickSteps : Tick(d, MaxTime)

SpecSeq == Init /\ [][NextSeq]_vars

\* SpecTtl: one caller, every shape of ttl_seconds
NextTtl ==
    \/ \E t \in TtlInputs : CheckoutRequest(1, JAbsent, t, 0)
    \/ CheckoutBegin(1)
    \/ CheckoutCommit(1)
    \/ \E l \in CompleteLeaseIds \ {0} : CompleteSelect(1, l, "success")
    \/ CompleteDelete(1)
    \/ AddAccount(1, MaxAccounts)
    \/ \E d \in TtlTickSteps : Tick(d, TtlMaxTime)

SpecTtl == Init /\ [][NextTtl]_vars

\* SpecAdmin: one caller beside the administrative layer: status toggles,
\* deletions and the refresh of single accounts
NextAdmin ==
    \/ CheckoutRequest(1, JAbsent, ScenarioTtl, 0)
    \/ CheckoutBegin(1)
    \/ CheckoutCommit(1)
    \/ \E l \in CompleteLeaseIds \ {0}, r \in Results : CompleteSelect(1, l, r)
    \/ CompleteDelete(1)
    \/ AddAccount(1, MaxAccounts)
    \/ \E a \in DOMAIN accounts, s \in Statuses : UpdateAccountStatus(a, s)
    \/ \E a \in DOMAIN accounts : DeleteAccount(a)
    \/ \E a \in DOMAIN accounts, s \in {"success", "failed"} : LogRefreshResult(a, s)
    \/ \E d \in CoarseTickSteps : Tick(d, MaxTime)

SpecAdmin == Init /\ [][NextAdmin]_vars

\* SpecRelease: one caller that reports both results, beside status toggles
\* and refreshes of the accounts
NextRelease ==
    \/ CheckoutRequest(1, JAbsent, ScenarioTtl, 0)
    \/ CheckoutBegin(1)
    \/ CheckoutCommit(1)
    \/ \E l \in CompleteLeaseIds \ {0}, r \in Results : CompleteSelect(1, l, r)
    \/ CompleteDelete(1)
    \/ AddAccount(1, SeqAccounts)
    \/ \E a \in DOMAIN accounts : UpdateAccountStatus(a, "disabled")
    \/ \E a \in DOMAIN accounts : LogRefreshResult(a, "success")

SpecRelease == Init /\ [][NextRelease]_vars

\* SpecRace: two checkout requests, parsed and about to open their
\* transactions, over a store that earlier requests left: accounts 1..
\* RaceAccounts of either status, each without a lease, with a lease that
\* expired at RaceNow or with one that expires after it
RaceNow == 2 * MinTtl
RaceLeaseKinds == {"none", "expired", "live"}
RaceLease(a, kind) ==
    [lease_id |-> LeaseIdBase + a, account_id |-> a, owner |-> 0,
     expires_at |-> IF kind = "expired" THEN RaceNow ELSE RaceNow + MinTtl \div 2,
     created_at |-> IF kind = "expired" THEN RaceNow - MinTtl ELSE RaceNow - MinTtl \div 2]

InitRace ==
    /\ now = RaceNow
    /\ \E st \in [1..RaceAccounts -> Statuses] :
          accounts = [a \in 1..RaceAccounts |->
                        [status |-> st[a], group_id |-> 1, last_refresh_at |-> -1]]
    /\ nextAccount = RaceAccounts + 1
    /\ \E kind \in [1..RaceAccounts -> RaceLeaseKinds] :
          /\ leases = {RaceLease(a, kind[a]) : a \in {b \in 1..RaceAccounts : kind[b] # "none"}}
          /\ audit_logs = SetToBag({[action |-> "checkout", resource_id |-> a,
                                     lease_id |-> LeaseIdBase + a, result |-> "none"] :
                                        a \in {b \in 1..RaceAccounts : kind[b] # "none"}})
    /\ nextLease = LeaseIdBase + RaceAccounts + 1
    /\ refresh_logs = <<>>
    /\ dbLock = 0
    /\ pc = [c \in Callers |-> "co_begin"]
    /\ req = [c \in Callers |->
                [op |-> "checkout", group |-> 0, ttl |-> EffectiveTtl(ScenarioTtl),
                 ttl_raw |-> ScenarioTtl, lease_id |-> 0, result |-> "none",
                 owner |-> 0]]
    /\ tx = [c \in Callers |-> NoTx]
    /\ resp = NoResp
    /\ OrchInit
    /\ config = NoConfig

NextRace ==
    \/ \E c \in Callers : CheckoutBegin(c)
    \/ \E c \in Callers : CheckoutCommit(c)

SpecRace == InitRace /\ [][NextRace]_vars

\* ---- one runner, one scope: runs, crashes and resumed runs
InitRun ==
    /\ now = 0
    /\ \E st \in [1..RunAccounts -> {"active", "inactive"}] :
          accounts = [a \in 1..RunAccounts |->
                         [status |-> st[a], group_id |-> 1, last_refresh_at |-> -1]]
    /\ nextAccount = RunAccounts + 1
    /\ leases = {}
    /\ nextLease = 1
    /\ refresh_logs = <<>>
    /\ audit_logs = EmptyBag
    /\ dbLock = 0
    /\ pc = [c \in Callers |-> "idle"]
    /\ req = [c \in Callers |-> NoReq]
    /\ tx = [c \in Callers |-> NoTx]
    /\ resp = NoResp
    /\ OrchInit
    /\ config = NoConfig

NextRun ==
    \/ \E resume \in BOOLEAN, b \in RunBatchSizes :
          RunStart(1, "manual", "manual", resume, DefaultDelay, 1, b)
    \/ \E a \in 1..RunAccounts, o \in {"success", "failed"} : RunResult(1, a, o)
    \/ BatchCommit(1)
    \/ RunComplete(1)
    \/ RunCompleteEmpty(1)
    \/ RunClose(1)
    \/ Crash(1)
    \/ \E d \in RunTickSteps : Tick(d, RunMaxTime)

SpecRun == InitRun /\ [][NextRun]_vars

\* ---- the event stream: the first run may die, the run after it may
\* resume, and a run that is not killed is driven to its end
NextStream ==
    \/ \E resume \in BOOLEAN, b \in RunBatchSizes :
          RunStart(1, "manual", "manual", resume, DefaultDelay, 1, b)
    \/ \E a \in 1..RunAccounts, o \in {"success", "failed"} : RunResult(1, a, o)
    \/ BatchCommit(1)
    \/ RunComplete(1)
    \/ RunCompleteEmpty(1)
    \/ RunClose(1)
    \/ (Len(refresh_runs) = 1 /\ Crash(1))

\* the consumer keeps iterating the generator and every worker returns
StreamStep ==
    \/ \E a \in 1..RunAccounts, o \in {"success", "failed"} : RunResult(1, a, o)
    \/ BatchCommit(1)
    \/ RunComplete(1)
    \/ RunCompleteEmpty(1)
    \/ RunClose(1)

SpecStream == InitRun /\ [][NextStream]_vars /\ WF_vars(StreamStep)

\* ---- one run on a fresh store, with every kind of result
NextFail ==
    \/ \E resume \in BOOLEAN, b \in RunBatchSizes :
          refresh_runs = <<>> /\ RunStart(1, "manual", "manual", resume, DefaultDelay, 1, b)
    \/ \E a \in 1..RunAccounts, o \in Outcomes : RunResult(1, a, o)
    \/ BatchCommit(1)
    \/ RunComplete(1)
    \/ RunCompleteEmpty(1)
    \/ RunClose(1)

SpecFail == InitRun /\ [][NextFail]_vars

\* ---- one run on a fresh store, throttled or not, for each baseline delay
NextPace ==
    \/ \E d \in RunDelays, b \in PaceBatchSizes :
          refresh_runs = <<>> /\ RunStart(1, "manual", "manual", FALSE, d, 1, b)
    \/ \E a \in 1..RunAccounts, o \in {"success", "throttled"} : RunResult(1, a, o)
    \/ BatchCommit(1)
    \/ RunComplete(1)
    \/ RunCompleteEmpty(1)
    \/ RunClose(1)

SpecPace == InitRun /\ [][NextPace]_vars

\* ---- calls of _resolve_refresh_config: the settings table, the candidate
\* count and the mode are those of the initial state
InitConfig ==
    /\ now = 0
    /\ accounts = [a \in {} |-> 0]
    /\ nextAccount = 1
    /\ leases = {}
    /\ nextLease = LeaseIdBase + 1
    /\ refresh_logs = <<>>
    /\ audit_logs = EmptyBag
    /\ dbLock = 0
    /\ pc = [c \in Callers |-> "idle"]
    /\ req = [c \in Callers |-> NoReq]
    /\ tx = [c \in Callers |-> NoTx]
    /\ resp = NoResp
    /\ OrchInit
    /\ \E raw_delay \in SettingInputs, raw_workers \in SettingInputs,
          raw_batch \in SettingInputs, total \in ConfigTotals, mode \in ConfigModes :
           config = [raw_delay |-> raw_delay, raw_workers |-> raw_workers,
                     raw_batch |-> raw_batch, total |-> total, mode |-> mode,
                     result |-> NoResult]

NextConfig == ResolveConfig

SpecConfig == InitConfig /\ [][NextConfig]_vars

\* ---- the scheduler: two processes over one store, each loading the module
\* once, the periodic run of each over the same active accounts
InitSched ==
    /\ now = 0
    /\ accounts = [a \in 1..SchedAccounts |->
                      [status |-> "active", group_id |-> 1, last_refresh_at |-> -1]]
    /\ nextAccount = SchedAccounts + 1
    /\ leases = {}
    /\ nextLease = 1
    /\ refresh_logs = <<>>
    /\ audit_logs = EmptyBag
    /\ dbLock = 0
    /\ pc = [c \in Callers |-> "idle"]
    /\ req = [c \in Callers |-> NoReq]
    /\ tx = [c \in Callers |-> NoTx]
    /\ resp = NoResp
    /\ OrchInit
    /\ config = NoConfig

NextSched ==
    \/ \E p \in Procs : InitScheduler(p)
    \/ \E p \in Procs : HeartbeatJob(p)
    \/ \E p \in Procs : ScheduledRefreshTask(p)
    \/ \E p \in Procs : ProcExit(p)
    \/ \E r \in Runners, a \in 1..SchedAccounts : RunResult(r, a, "success")
    \/ \E r \in Runners : BatchCommit(r)
    \/ \E r \in Runners : RunComplete(r)
    \/ \E r \in Runners : RunClose(r)
    \/ \E d \in SchedTickSteps : SchedTick(d)

SpecSched == InitSched /\ [][NextSched]_vars

\* ---- one manual run whose consumer may go away, on a server that keeps
\* iterating the generator for as long as the stream is open
NextDetach ==
    \/ \E resume \in BOOLEAN, b \in RunBatchSizes :
          refresh_runs = <<>> /\ RunStart(1, "manual", "manual", resume, DefaultDelay, 1, b)
    \/ \E a \in 1..RunAccounts, o \in {"success", "failed"} : RunResult(1, a, o)
    \/ BatchCommit(1)
    \/ RunComplete(1)
    \/ RunCompleteEmpty(1)
    \/ RunClose(1)
    \/ Disconnect(1)
    \/ StreamClose(1)

SpecDetach == InitRun /\ [][NextDetach]_vars /\ WF_vars(StreamStep)

\* ---- runs of the two scopes one after the other, the checkpoint of the
\* first exactly as old as the staleness window, or one second older
NextResume ==
    \/ \E resume \in BOOLEAN, b \in RunBatchSizes, k \in ResumeKeys :
          RunStart(1, k, k, resume, DefaultDelay, 1, b)
    \/ \E a \in 1..RunAccounts : RunResult(1, a, "success")
    \/ BatchCommit(1)
    \/ RunComplete(1)
    \/ RunCompleteEmpty(1)
    \/ RunClose(1)
    \/ Crash(1)
    \/ \E d \in ResumeTickSteps : Tick(d, RunMaxTime)

SpecResume == InitRun /\ [][NextResume]_vars

\* ---- one process (number 2) with its scheduler and one manual request:
\* runner 1 is the run of GET /api/accounts/refresh-all, served by a request
\* thread of the process, runner 2 the run of its job token_refresh
NextBoth ==
    \/ InitScheduler(2)
    \/ ScheduledRefreshTask(2)
    \/ \E resume \in BOOLEAN, b \in RunBatchSizes :
          RunStart(1, "manual", "manual", resume, DefaultDelay, 1, b)
    \/ \E r \in Runners, a \in 1..SchedAccounts, o \in {"success", "failed"} :
          RunResult(r, a, o)
    \/ \E r \in Runners : BatchCommit(r)
    \/ \E r \in Runners : RunComplete(r)
    \/ \E r \in Runners : RunClose(r)

SpecBoth == InitSched /\ [][NextBoth]_vars

\* ---- one validation call against each script of answers
InitBackoff ==
    /\ now = 0
    /\ accounts = [a \in {} |-> 0]
    /\ nextAccount = 1
    /\ leases = {}
    /\ nextLease = LeaseIdBase + 1
    /\ refresh_logs = <<>>
    /\ audit_logs = EmptyBag
    /\ dbLock = 0
    /\ pc = [c \in Callers |-> "idle"]
    /\ req = [c \in Callers |-> NoReq]
    /\ tx = [c \in Callers |-> NoTx]
    /\ resp = NoResp
    /\ resume_states = [k \in ResumeKeys |-> NoCheckpoint]
    /\ refresh_runs = <<>>
    /\ rpc = [r \in Runners |-> "idle"]
    /\ run = [r \in Runners |-> NoRun]
    /\ events = [r \in Runners |-> <<>>]
    /\ SchedInit
    /\ config = NoConfig
    /\ inflight = [r \in Runners |-> {}]
    /\ \E script \in [1..ScriptLen -> ResponseKinds] :
          validation = [NoValidation EXCEPT !.responses = script, !.state = "calling",
                                            !.body = "json_other"]

NextBackoff == PostAttempt

SpecBackoff == InitBackoff /\ [][NextBackoff]_vars

\* ---- one run and its thread pool: a result is consumed only from a worker
\* that was started
PoolWorkers == {1, 2}
PoolBatchSizes == {1, 2, 3}

NextPool ==
    \/ \E w \in PoolWorkers, b \in PoolBatchSizes :
          refresh_runs = <<>> /\ RunStart(1, "manual", "manual", FALSE, DefaultDelay, w, b)
    \/ WorkerStart(1)
    \/ \E a \in 1..RunAccounts, o \in {"success", "failed"} :
          a \in inflight[1] /\ RunResult(1, a, o)
    \/ BatchCommit(1)
    \/ RunComplete(1)
    \/ RunCompleteEmpty(1)
    \/ RunClose(1)

SpecPool == InitRun /\ [][NextPool]_vars

\* ---- one run over a store whose accounts are active or disabled, leased
\* or not
InitFrame ==
    /\ now = RaceNow
    /\ \E st \in [1..RaceAccounts -> Statuses] :
          accounts = [a \in 1..RaceAccounts |->
                        [status |-> st[a], group_id |-> 1, last_refresh_at |-> -1]]
    /\ nextAccount = RaceAccounts + 1
    /\ \E kind \in [1..RaceAccounts -> RaceLeaseKinds] :
          /\ leases = {RaceLease(a, kind[a]) : a \in {b \in 1..RaceAccounts : kind[b] # "none"}}
          /\ audit_logs = SetToBag({[action |-> "checkout", resource_id |-> a,
                                     lease_id |-> LeaseIdBase + a, result |-> "none"] :
                                        a \in {b \in 1..RaceAccounts : kind[b] # "none"}})
    /\ nextLease = LeaseIdBase + RaceAccounts + 1
    /\ refresh_logs = <<>>
    /\ dbLock = 0
    /\ pc = [c \in Callers |-> "idle"]
    /\ req = [c \in Callers |-> NoReq]
    /\ tx = [c \in Callers |-> NoTx]
    /\ resp = NoResp
    /\ OrchInit
    /\ config = NoConfig

NextFrame ==
    \/ \E b \in RunBatchSizes :
          refresh_runs = <<>> /\ RunStart(1, "manual", "manual", FALSE, DefaultDelay, 1, b)
    \/ \E a \in 1..RaceAccounts, o \in Outcomes : RunResult(1, a, o)
    \/ BatchCommit(1)
    \/ RunComplete(1)
    \/ RunCompleteEmpty(1)
    \/ RunClose(1)

SpecFrame == InitFrame /\ [][NextFrame]_vars

\* ---- one validation call against a throttled endpoint, for each kind of
\* body the answers carry
InitThrottle ==
    /\ now = 0
    /\ accounts = [a \in {} |-> 0]
    /\ nextAccount = 1
    /\ leases = {}
    /\ nextLease = LeaseIdBase + 1
    /\ refresh_logs = <<>>
    /\ audit_logs = EmptyBag
    /\ dbLock = 0
    /\ pc = [c \in Callers |-> "idle"]
    /\ req = [c \in Callers |-> NoReq]
    /\ tx = [c \in Callers |-> NoTx]
    /\ resp = NoResp
    /\ resume_states = [k \in ResumeKeys |-> NoCheckpoint]
    /\ refresh_runs = <<>>
    /\ rpc = [r \in Runners |-> "idle"]
    /\ run = [r \in Runners |-> NoRun]
    /\ events = [r \in Runners |-> <<>>]
    /\ SchedInit
    /\ config = NoConfig
    /\ inflight = [r \in Runners |-> {}]
    /\ \E script \in [1..ScriptLen -> ThrottleKinds], body \in BodyKinds :
          validation = [NoValidation EXCEPT !.responses = script, !.state = "calling",
                                            !.body = body]

SpecThrottle == InitThrottle /\ [][NextBackoff]_vars

\* ---- one run by each trigger path, for each content of the three stored
\* settings, over a store with candidates or with none
InitTrigger ==
    /\ now = 0
    /\ \E st \in {"active", "disabled"} :
          accounts = [a \in 1..SchedAccounts |->
                         [status |-> st, group_id |-> 1, last_refresh_at |-> -1]]
    /\ nextAccount = SchedAccounts + 1
    /\ leases = {}
    /\ nextLease = 1
    /\ refresh_logs = <<>>
    /\ audit_logs = EmptyBag
    /\ dbLock = 0
    /\ pc = [c \in Callers |-> "idle"]
    /\ req = [c \in Callers |-> NoReq]
    /\ tx = [c \in Callers |-> NoTx]
    /\ resp = NoResp
    /\ OrchInit
    /\ \E raw_delay \in TriggerSettings, raw_workers \in TriggerSettings,
          raw_batch \in TriggerSettings :
           config = [NoConfig EXCEPT !.raw_delay = raw_delay,
                                     !.raw_workers = raw_workers,
                                     !.raw_batch = raw_batch]

NextTrigger ==
    \/ InitScheduler(2)
    \/ refresh_runs = <<>> /\ ScheduledRefreshTask(2)
    \/ \E resume \in BOOLEAN :
          refresh_runs = <<>> /\ StreamTrigger(1, "manual", "full", resume)
    \/ \E resume \in BOOLEAN :
          refresh_runs = <<>> /\ StreamTrigger(1, "scheduled", "group", resume)
    \/ \E r \in Runners, a \in 1..SchedAccounts : RunResult(r, a, "success")
    \/ \E r \in Runners : BatchCommit(r)
    \/ \E r \in Runners : RunComplete(r)
    \/ \E r \in Runners : RunCompleteEmpty(r)
    \/ \E r \in Runners : RunClose(r)

SpecTrigger == InitTrigger /\ [][NextTrigger]_vars

\* ---- two runs of the scope scheduled at once: runner 1 is the stream of
\* GET /api/accounts/trigger-scheduled-refresh (with force=true it starts
\* whenever it is asked for), runner 2 the periodic run of the process
InitOverlap ==
    /\ now = 0
    /\ accounts = [a \in 1..SchedAccounts |->
                      [status |-> "active", group_id |-> 1, last_refresh_at |-> -1]]
    /\ nextAccount = SchedAccounts + 1
    /\ leases = {}
    /\ nextLease = 1
    /\ refresh_logs = <<>>
    /\ audit_logs = EmptyBag
    /\ dbLock = 0
    /\ pc = [c \in Callers |-> "idle"]
    /\ req = [c \in Callers |-> NoReq]
    /\ tx = [c \in Callers |-> NoTx]
    /\ resp = NoResp
    /\ OrchInit
    /\ \E raw_workers \in OverlapSettings, raw_batch \in OverlapSettings :
           config = [NoConfig EXCEPT !.raw_workers = raw_workers,
                                     !.raw_batch = raw_batch]

NextOverlap ==
    \/ InitScheduler(2)
    \/ ScheduledRefreshTask(2)
    \/ \E resume \in BOOLEAN : StreamTrigger(1, "scheduled", "group", resume)
    \/ \E r \in Runners, a \in 1..SchedAccounts, o \in {"success", "failed"} :
          RunResult(r, a, o)
    \/ \E r \in Runners : BatchCommit(r)
    \/ \E r \in Runners : RunComplete(r)
    \/ \E r \in Runners : RunClose(r)

SpecOverlap == InitOverlap /\ [][NextOverlap]_vars

\* ================================================================== claims
LeaseIds(ls) == {l.lease_id : l \in ls}
AuditRows(action) == {r \in BagToSet(audit_logs) : r.action = action}
\* the lease ids a Complete has deleted and answered
Released == {r.lease_id : r \in AuditRows("checkout_complete")}
\* the handler steps, told by the caller's position before and after
BeginStep(c) == pc[c] = "co_begin" /\ pc'[c] = "co_commit"
CommitStep(c) == pc[c] = "co_commit" /\ pc'[c] = "idle"
GrantStep(c) == CommitStep(c) /\ resp'.to = c /\ resp'.code = 200
CompleteFoundStep(c) == pc[c] = "idle" /\ pc'[c] = "cp_delete"
CompleteNotFoundStep(c) == pc[c] = "idle" /\ resp'.to = c /\ resp'.code = 404
CompleteDeleteStep(c) == pc[c] = "cp_delete" /\ pc'[c] = "idle"

\* C1: whatever the interleaving of the callers' checkouts, a checkout
\* answers success with an account only when no lease of that account is
\* live: every lease an earlier success created for it has expired, was
\* completed or went with the account.
C1_MutualExclusion ==
    [][\A c \in Callers :
         GrantStep(c) =>
            ~\E l \in leases : l.account_id = resp'.account_id /\ l.expires_at > now]_vars

\* two successes with one account, the later lease in the store
C1_Witness ==
    \E l \in leases, r \in AuditRows("checkout") :
        r.resource_id = l.account_id /\ r.lease_id < l.lease_id

\* C2: in every reachable state each account id is in at most one lease
\* record.
C2_OneLeasePerAccount ==
    \A l1, l2 \in leases : l1.account_id = l2.account_id => l1 = l2

\* a live lease, and a concurrent checkout that found no account
C2_Witness ==
    \E l \in leases, c \in Callers :
        pc[c] = "co_commit" /\ tx[c].row = 0 /\ l.expires_at > now

\* the active accounts matching the filter whose only lease has expired
ExpiredLeased(filter) ==
    {a \in DOMAIN accounts :
        /\ accounts[a].status = "active"
        /\ (filter # 0 => accounts[a].group_id = filter)
        /\ \E l \in leases : l.account_id = a
        /\ \A l \in leases : l.account_id = a => l.expires_at < now}

\* C3: a lease whose expiry has passed never blocks checkout: the SELECT of
\* a checkout counts an active matching account with only such a lease as
\* free (it picks that account or a lower free one), and the step that
\* grants the account removes the old lease and creates one with a new id.
C3_ExpiredNeverBlocks ==
    [][\A c \in Callers :
         /\ BeginStep(c) =>
              \A a \in ExpiredLeased(req[c].group) : tx'[c].row \in 1..a
         /\ GrantStep(c) =>
              \A old \in leases :
                 old.account_id = resp'.account_id =>
                    /\ old \notin leases'
                    /\ resp'.lease_id # old.lease_id
                    /\ resp'.lease_id \notin LeaseIds(leases)
                    /\ \E new \in leases' : /\ new.lease_id = resp'.lease_id
                                            /\ new.account_id = old.account_id
                                            /\ new.expires_at > now]_vars

\* a checkout granted an account over its expired lease, which no Complete
\* had released
C3_Witness ==
    /\ resp.code = 200
    /\ \E r \in AuditRows("checkout") :
          /\ r.resource_id = resp.account_id
          /\ r.lease_id < resp.lease_id
          /\ r.lease_id \notin Released
    /\ \A l \in leases : l.account_id = resp.account_id => l.lease_id = resp.lease_id

\* C6: the DELETE step of a Complete removes the named lease and answers
\* success; a Complete that names a lease id an earlier Complete has
\* released finds no row, answers 404 and leaves the store as it is.
C6_CompleteOnce ==
    [][\A c \in Callers :
         /\ CompleteDeleteStep(c) =>
              /\ resp'.to = c /\ resp'.code = 200
              /\ req[c].lease_id \notin LeaseIds(leases')
         /\ CompleteFoundStep(c) => req'[c].lease_id \notin Released
         /\ CompleteNotFoundStep(c) =>
              UNCHANGED <<accounts, leases, refresh_logs, audit_logs, nextLease>>]_vars

\* a Complete of a released lease id was answered 404
C6_Witness == resp.code = 404 /\ resp.lease_id \in Released

\* C7 as the spec states it: 31 seconds after a checkout with
\* ttl_seconds=30 a Complete of the lease does not find it.
C7_AsClaimed ==
    [][\A c \in Callers, l \in leases :
         (now = l.created_at + 31 /\ pc[c] = "idle" /\ pc'[c] = "cp_delete")
            => req'[c].lease_id # l.lease_id]_vars

\* C7 amended: a lease asked for with ttl_seconds=30 lasts 60 seconds; as
\* long as its row is in the store (31 seconds later too) a Complete naming
\* it finds it and its DELETE step answers success, and before the 60
\* seconds are over no checkout selects the account.
C7_ClampedLeaseOutlivesWait ==
    [][\A c \in Callers :
         /\ \A l \in leases' : l.expires_at = l.created_at + MinTtl
         /\ CompleteNotFoundStep(c) => resp'.lease_id \notin LeaseIds(leases)
         /\ CompleteDeleteStep(c) => resp'.to = c /\ resp'.code = 200
         /\ BeginStep(c) =>
              \A l \in leases : now < l.created_at + MinTtl => tx'[c].row # l.account_id]_vars

\* 31 seconds after its checkout a Complete has found the lease
C7_Witness ==
    \E c \in Callers, l \in leases :
        /\ pc[c] = "cp_delete"
        /\ req[c].lease_id = l.lease_id
        /\ now = l.created_at + 31

\* the leases of SpecRace's two requests, and the accounts that are active
\* and without a live lease when the two arrive
RaceNewLeases(ls) == {l \in ls : l.lease_id > LeaseIdBase + RaceAccounts}
RaceCandidates ==
    {a \in DOMAIN accounts :
        /\ accounts[a].status = "active"
        /\ ~\E l \in leases \ RaceNewLeases(leases) :
              l.account_id = a /\ l.expires_at > now}

\* C4: two concurrent checkouts over exactly one candidate account: the
\* first to answer succeeds with it, the second answers 404, and when both
\* have answered the candidate has exactly one new lease.
C4_OneWinnerOneNotFound ==
    [][Cardinality(RaceCandidates) = 1 =>
         \A c \in Callers :
            CommitStep(c) =>
               /\ resp'.to = c
               /\ resp'.code = IF RaceNewLeases(leases) = {} THEN 200 ELSE 404
               /\ resp'.code = 200 => resp'.account_id \in RaceCandidates
               /\ (\A d \in Callers : pc'[d] = "idle") =>
                     Cardinality(RaceNewLeases(leases')) = 1]_vars

\* both requests answered, the second with 404, one candidate leased once
C4_Witness ==
    /\ \A c \in Callers : pc[c] = "idle"
    /\ resp.code = 404
    /\ Cardinality(RaceNewLeases(leases)) = 1
    /\ \A l \in RaceNewLeases(leases) : RaceCandidates = {l.account_id}

\* the active accounts of the filter's group with no lease that outlasts
\* the sweep
Eligible(filter) ==
    {a \in DOMAIN accounts :
        /\ accounts[a].status = "active"
        /\ (filter # 0 => accounts[a].group_id = filter)
        /\ \A l \in leases : l.account_id = a => l.expires_at <= now}

\* C5: the SELECT of a checkout yields the smallest id among the active
\* accounts that match the group filter (none given: every group) and keep
\* no lease after the sweep; the answer is 404 exactly when there is none,
\* and then no lease is created; otherwise the answer carries that account
\* and its new lease.
C5_LowestFreeAccount ==
    [][\A c \in Callers :
         /\ BeginStep(c) =>
              tx'[c].row = IF Eligible(req[c].group) = {} THEN 0
                           ELSE Min(Eligible(req[c].group))
         /\ CommitStep(c) =>
              /\ resp'.to = c
              /\ resp'.code = IF tx[c].row = 0 THEN 404 ELSE 200
              /\ resp'.code = 404 => leases' \subseteq leases /\ nextLease' = nextLease
              /\ resp'.code = 200 =>
                    /\ resp'.account_id = tx[c].row
                    /\ \E l \in leases' \ leases : /\ l.account_id = tx[c].row
                                                   /\ l.lease_id = resp'.lease_id]_vars

\* a checkout with a group filter passed over the free active account 1 of
\* the other group
C5_Witness ==
    /\ resp.code = 200
    /\ resp.account_id = 2
    /\ 1 \in DOMAIN accounts
    /\ accounts[1].status = "active"
    /\ accounts[1].group_id # accounts[2].group_id
    /\ \A l \in leases : l.account_id # 1

Clamp(ttl) == IF ttl < MinTtl THEN MinTtl ELSE IF ttl > MaxTtl THEN MaxTtl ELSE ttl

\* the effective TTL as C8 states it: the requested integer clamped, 900
\* for anything else
TtlAsClaimed(raw) ==
    IF raw.t \in {"int", "str"} THEN Clamp(raw.v) ELSE DefaultTtl

\* the effective TTL as amended: a number with a fraction loses it first
TtlAmended(raw) ==
    CASE raw.t \in {"int", "str"} -> Clamp(raw.v)
      [] raw.t = "float" -> Clamp(IF raw.v >= 0 THEN raw.v \div 10 ELSE -((-raw.v) \div 10))
      [] OTHER -> DefaultTtl

\* C8 as the spec states it: 900 for every ttl_seconds that is not an
\* integer, 90.5 included.
C8_AsClaimed ==
    [][\A c \in Callers :
         GrantStep(c) => resp'.expires_at = now + TtlAsClaimed(req[c].ttl_raw)]_vars

\* C8 amended: the effective TTL is ttl_seconds clamped into [60, 3600],
\* after a number with a fraction is cut to its integer part; it is 900
\* when ttl_seconds is absent, null or a text that is no integer; the
\* expires_at stored and returned is the checkout time plus that TTL.
C8_ClampedTtl ==
    [][\A c \in Callers :
         GrantStep(c) =>
            /\ resp'.expires_at = now + TtlAmended(req[c].ttl_raw)
            /\ resp'.expires_at - now \in MinTtl..MaxTtl
            /\ \E l \in leases' : /\ l.lease_id = resp'.lease_id
                                  /\ l.expires_at = resp'.expires_at]_vars

\* a checkout with ttl_seconds=90.5 was granted for 90 seconds
C8_Witness ==
    /\ resp.code = 200
    /\ resp.expires_at = now + 90
    /\ \E l \in leases : l.lease_id = resp.lease_id /\ l.expires_at = resp.expires_at

\* C9: a lease record leaves the store only in the DELETE step of a
\* Complete naming it, in a checkout's commit once its expiry has passed,
\* or with its account; one enters only in a successful checkout of an
\* account without a live lease.  Refreshes, status toggles and the clock
\* leave the lease records alone.
C9_LeaseLifecycle ==
    [][/\ \A l \in leases \ leases' :
            \/ \E c \in Callers : CompleteDeleteStep(c) /\ req[c].lease_id = l.lease_id
            \/ \E c \in Callers : CommitStep(c) /\ l.expires_at <= now
            \/ l.account_id \in DOMAIN accounts \ DOMAIN accounts'
       /\ \A l \in leases' \ leases :
            \E c \in Callers :
               /\ GrantStep(c)
               /\ resp'.lease_id = l.lease_id
               /\ resp'.account_id = l.account_id
               /\ \A k \in leases : k.account_id = l.account_id => k.expires_at <= now]_vars

\* an expired lease still in the store after its account was refreshed and
\* disabled
C9_Witness ==
    \E l \in leases :
        /\ l.expires_at <= now
        /\ accounts[l.account_id].status = "disabled"
        /\ accounts[l.account_id].last_refresh_at >= 0

\* C10: the steps of a Complete, whatever its result, leave every account
\* as it is and remove no lease but the one named.
C10_CompleteFrame ==
    [][\A c \in Callers :
         /\ (CompleteFoundStep(c) \/ CompleteNotFoundStep(c)) =>
               accounts' = accounts /\ leases' = leases
         /\ CompleteDeleteStep(c) =>
               /\ accounts' = accounts
               /\ \A l \in leases : l.lease_id # req[c].lease_id => l \in leases']_vars

\* a Complete with result "failed" was answered; the account keeps its
\* status and refresh time and the other lease is in the store
C10_Witness ==
    /\ resp.code = 200
    /\ \E r \in AuditRows("checkout_complete") :
          /\ r.lease_id = resp.lease_id
          /\ r.result = "failed"
          /\ r.resource_id \in DOMAIN accounts
          /\ accounts[r.resource_id].status = "active"
          /\ accounts[r.resource_id].last_refresh_at >= 0
    /\ leases # {}

\* ------------------------------------------------------ refresh runs: claims
ActiveIds == SeqIds(ActiveAccounts(accounts))
LogCount(logs, a) == Cardinality({i \in 1..Len(logs) : logs[i].account_id = a})
ProgressCount(evs, a) ==
    Cardinality({i \in 1..Len(evs) : evs[i].type = "progress" /\ evs[i].id = a})
\* the store as a dead run left it: one run row, never completed, and a
\* checkpoint of the scope that is running, has last_id = k and is not stale
InterruptedAt(k) ==
    /\ Len(refresh_runs) = 1
    /\ refresh_runs[1].status = "running"
    /\ resume_states["manual"].status = "running"
    /\ resume_states["manual"].last_id = k
    /\ now - resume_states["manual"].updated_at <= ResumeTtl
ResumeStartStep == rpc[1] = "idle" /\ rpc'[1] # "idle" /\ run'[1].resume
ResumedEndStep ==
    /\ rpc[1] \in {"completing", "empty"}
    /\ rpc'[1] = "closing"
    /\ run[1].run_id = 2
    /\ refresh_runs[1].status = "running"
    /\ refresh_runs[2].resumed

\* C11: a run over the accounts 1..n dies after its checkpoint with
\* last_id = k was persisted.  The next invocation of the scope with
\* resume = true, the checkpoint not being stale, validates exactly the
\* accounts above k.  When it completes every account has been processed
\* exactly once over the two invocations (one log row each, one progress
\* event for each account above k), and the accounts the dead run had
\* persisted plus the success and failure counts of the second sum to n.
C11_ResumeAfterCrash ==
    [][/\ \A k \in 1..RunAccounts :
             InterruptedAt(k) /\ ResumeStartStep =>
                /\ refresh_runs'[2].resumed
                /\ SeqIds(run'[1].todo) = {a \in ActiveIds : a > k}
                /\ \A a \in ActiveIds :
                      LogCount(refresh_logs, a) = IF a <= k THEN 1 ELSE 0
       /\ ResumedEndStep =>
             /\ \A a \in ActiveIds :
                   /\ LogCount(refresh_logs', a) = 1
                   /\ ProgressCount(events'[1], a) =
                         IF a \in SeqIds(run[1].todo) THEN 1 ELSE 0
             /\ Len(refresh_logs') = Cardinality(ActiveIds)
             /\ refresh_runs'[2].skipped + refresh_runs'[2].success_count
                   + refresh_runs'[2].failed_count = Cardinality(ActiveIds)
             /\ refresh_runs'[2].skipped = Len(refresh_logs')
                   - (refresh_runs'[2].success_count + refresh_runs'[2].failed_count)]_vars

\* the second invocation resumed a dead run in the middle of the account
\* list and has completed, with successes and failures among its results
C11_Witness ==
    /\ Len(refresh_runs) = 2
    /\ refresh_runs[1].status = "running"
    /\ refresh_runs[2].resumed
    /\ refresh_runs[2].status = "completed"
    /\ refresh_runs[2].total_all = RunAccounts
    /\ refresh_runs[2].skipped > 0
    /\ refresh_runs[2].total > 0
    /\ refresh_runs[2].success_count + refresh_runs[2].failed_count = refresh_runs[2].total
    /\ \E i, j \in 1..Len(refresh_logs) :
          refresh_logs[i].status = "success" /\ refresh_logs[j].status = "failed"

\* C12: the durable state is consistent wherever the process may die.  The
\* first write of a run persists a checkpoint whose processed count is the
\* number of accounts skipped by resume, and adds no log row; after that
\* every step, a process death included, adds as many log rows as it
\* advances the persisted processed count (a batch's rows and its
\* checkpoint become durable in one commit), so the rows persisted by the
\* run are the persisted processed count minus the skipped accounts.
C12_DurableConsistency ==
    [][LET ck == resume_states["manual"]
           ck2 == resume_states'["manual"]
       IN /\ Len(refresh_runs') # Len(refresh_runs) =>
                /\ refresh_logs' = refresh_logs
                /\ ck2.processed = refresh_runs'[Len(refresh_runs')].skipped
          /\ Len(refresh_runs') = Len(refresh_runs) =>
                /\ Len(refresh_logs') - Len(refresh_logs) = ck2.processed - ck.processed
                /\ SubSeq(refresh_logs', 1, Len(refresh_logs)) = refresh_logs
          /\ Len(refresh_runs') = 1 =>
                Len(refresh_logs') = ck2.processed - refresh_runs'[1].skipped]_vars

\* a resumed run has committed a batch and holds uncommitted results of the
\* next one: a process death here loses them and keeps the checkpoint
C12_Witness ==
    /\ rpc[1] = "running"
    /\ run[1].run_id = 2
    /\ refresh_runs[2].skipped > 0
    /\ run[1].plogs # <<>>
    /\ resume_states["manual"].processed > refresh_runs[2].skipped
    /\ Len(refresh_logs) = resume_states["manual"].processed

\* the step that ends a batch
BatchEndStep ==
    /\ rpc[1] = "running"
    /\ run[1].waiting = {}
    /\ run'[1].batch_start = run[1].batch_start + run[1].batch_size

\* C13: within one run the persisted checkpoint's last_id never decreases,
\* and the commit that ends a batch sets it to the largest account id of
\* that batch.
C13_LastIdMonotonic ==
    [][Len(refresh_runs') = Len(refresh_runs) =>
          /\ resume_states'["manual"].last_id >= resume_states["manual"].last_id
          /\ BatchEndStep =>
                resume_states'["manual"].last_id =
                   Max(SeqIds(BatchOf(run[1].todo, run[1].batch_start, run[1].batch_size)))]_vars

\* a run has committed a batch of two accounts and then a later batch
C13_Witness ==
    /\ rpc[1] = "completing"
    /\ run[1].batch_size = 2
    /\ run[1].batch_start >= 4
    /\ Len(run[1].todo) >= 3
    /\ resume_states["manual"].last_id = Max(ActiveIds)
    /\ resume_states["manual"].last_id > 2

\* the invocation on runner 1 has returned after its complete event
Returned ==
    /\ rpc[1] = "idle"
    /\ events[1] # <<>>
    /\ events[1][Len(events[1])].type = "complete"

\* C14: once an invocation that reached completion has returned, the
\* zero-candidate case included, the durably persisted checkpoint of its
\* scope has status completed (so a later resume = true does not resume
\* from it).
C14_CheckpointCompleted ==
    Returned => resume_states["manual"].status = "completed"

\* the refresh_runs row of the latest run
LastRunRow == refresh_runs[Len(refresh_runs)]
\* the events of runner 1 are those of the latest run
EventsOfLastRun ==
    /\ refresh_runs # <<>>
    /\ events[1] # <<>>
    /\ events[1][1].run_id = LastRunRow.run_id

\* C15: a run whose candidate set is empty emits exactly two events, start
\* and then complete with total = 0, zero success and failure counts and an
\* empty failed_list; it validates no account, and its refresh_runs row is
\* marked completed.
C15_EmptyRun ==
    (EventsOfLastRun /\ LastRunRow.total = 0) =>
        /\ events[1][1] = Event("start", LastRunRow.run_id, 0, 0, 0, 0, 0, <<>>,
                                LastRunRow.delay_seconds)
        /\ run[1].plogs = <<>>
        /\ run[1].waiting = {}
        /\ rpc[1] # "running" /\ rpc[1] # "completing"
        /\ rpc[1] = "empty" => Len(events[1]) = 1
        /\ rpc[1] \in {"closing", "idle"} =>
              /\ Len(events[1]) = 2
              /\ events[1][2] = Event("complete", LastRunRow.run_id, 0, 0, 0, 0, 0, <<>>, 0)
              /\ LastRunRow.status = "completed"
              /\ LastRunRow.success_count = 0
              /\ LastRunRow.failed_count = 0

\* an invocation that found every account skipped by resume has returned
C15_Witness ==
    /\ Returned
    /\ EventsOfLastRun
    /\ LastRunRow.total = 0
    /\ LastRunRow.resumed
    /\ LastRunRow.skipped = RunAccounts
    /\ LastRunRow.status = "completed"

\* the accounts left to the latest run after the resume filter
LastRunCandidates ==
    {ActiveAccounts(accounts)[i] : i \in (LastRunRow.skipped + 1)..LastRunRow.total_all}
EventCount(evs, type) == Cardinality({i \in 1..Len(evs) : evs[i].type = type})
\* start first and only first, complete only last, at most one progress
\* event for each candidate and none for any other account
EventGrammar(evs) ==
    /\ evs[1].type = "start"
    /\ \A i \in 2..Len(evs) : evs[i].type \in {"progress", "delay", "complete"}
    /\ \A i \in 1..Len(evs) : evs[i].type = "complete" => i = Len(evs)
    /\ \A i \in 1..Len(evs) : evs[i].type = "progress" => evs[i].id \in LastRunCandidates
    /\ \A a \in LastRunCandidates : ProgressCount(evs, a) <= 1

\* the first run died: its row was never finished and its stream is gone
Killed ==
    /\ rpc[1] = "idle"
    /\ events[1] = <<>>
    /\ Len(refresh_runs) = 1
    /\ refresh_runs[1].status = "running"

FailedIds(failed_list) == {failed_list[i].id : i \in 1..Len(failed_list)}
LoggedAs(a, status) ==
    \E i \in 1..Len(refresh_logs) :
        refresh_logs[i].account_id = a /\ refresh_logs[i].status = status

\* C17: a validation that fails in any way (the validator reports failure,
\* an error is thrown, the secret cannot be decrypted) is a failed outcome
\* of that account only.  Every account of the run is still processed: when
\* the run has ended each candidate has one progress event and one log row,
\* the accounts logged as failed are exactly those of the failed_list, with
\* one entry each, the others are logged as success and have their refresh
\* time set; a run in which every account failed ends with complete
\* carrying failed_count = total.
C17_FailureIsolated ==
    (Returned /\ EventsOfLastRun) =>
        LET done == events[1][Len(events[1])]
        IN /\ \A a \in LastRunCandidates :
                 /\ ProgressCount(events[1], a) = 1
                 /\ LogCount(refresh_logs, a) = 1
                 /\ a \in FailedIds(done.failed_list) <=> LoggedAs(a, "failed")
                 /\ a \notin FailedIds(done.failed_list) <=> LoggedAs(a, "success")
                 /\ LoggedAs(a, "success") <=> accounts[a].last_refresh_at >= 0
           /\ FailedIds(done.failed_list) \subseteq LastRunCandidates
           /\ Len(done.failed_list) = Cardinality(FailedIds(done.failed_list))
           /\ done.failed_count = Len(done.failed_list)
           /\ done.success_count + done.failed_count = done.total
           /\ done.total = Cardinality(LastRunCandidates)
           /\ done.success_count = 0 => done.failed_count = done.total

\* a run of several batches in which every account failed, in each of the
\* three ways, has ended
C17_Witness ==
    /\ Returned
    /\ EventsOfLastRun
    /\ LastRunRow.total = RunAccounts
    /\ LastRunRow.batch_size < LastRunRow.total
    /\ events[1][Len(events[1])].failed_count = RunAccounts
    /\ \A o \in {"failed", "raised", "undecryptable"} :
          \E i \in 1..RunAccounts : events[1][Len(events[1])].failed_list[i].error = o

\* the seconds of the delay events of a stream
DelaySeconds(evs) == {evs[i].seconds : i \in {j \in 1..Len(evs) : evs[j].type = "delay"}}

\* C18: after a batch with at least one throttled outcome the inter-batch
\* delay is higher than before the batch unless it was already at the
\* ceiling, and it does not exceed the ceiling, whatever the baseline delay
\* in 0..60.
C18_ThrottleRaisesDelay ==
    [][(BatchEndStep /\ run[1].throttle_hits > 0) =>
          /\ run'[1].current_delay <= BackoffMax
          /\ \/ run'[1].current_delay > run[1].current_delay
             \/ run[1].current_delay = BackoffMax]_vars

\* C19: the inter-batch delay of a run, and the seconds of its delay
\* events, are never below the run's baseline delay; after a batch without
\* a throttled outcome a delay above the baseline moves toward the baseline
\* and not below it.
C19_DelayNotBelowBaseline ==
    [][/\ rpc'[1] # "idle" =>
             /\ run'[1].current_delay >= run'[1].delay_seconds
             /\ \A sec \in DelaySeconds(events'[1]) : sec >= run'[1].delay_seconds
       /\ (BatchEndStep /\ run[1].throttle_hits = 0
              /\ run[1].current_delay > run[1].delay_seconds) =>
             /\ run'[1].current_delay < run[1].current_delay
             /\ run'[1].current_delay >= run[1].delay_seconds]_vars

\* C20: whatever the three settings hold, whatever the candidate count and
\* the mode, _resolve_refresh_config returns a worker count in 1..20, a
\* batch size in 1..100 and a delay in 0..60.
C20_ConfigInBounds ==
    config.result # NoResult =>
        /\ config.result.max_workers \in 1..20
        /\ config.result.batch_size \in 1..100
        /\ config.result.delay_seconds \in 0..60

\* the settings held values beyond the three ceilings, with more than 2000
\* candidates in the tuned mode, and the result is at the ceilings
C20_Witness ==
    /\ config.raw_delay = JStr(1000)
    /\ config.raw_workers = JStr(1000)
    /\ config.raw_batch = JStr(1000)
    /\ config.total = 2500
    /\ config.mode = "default"
    /\ config.result = [delay_seconds |-> 1, max_workers |-> 20, batch_size |-> 100]

\* C21: whatever the three settings hold, whatever the mode and the
\* candidate count, 0 included, the batch size that _resolve_refresh_config
\* returns is not below the worker count it returns.
C21_BatchNotBelowWorkers ==
    config.result # NoResult => config.result.batch_size >= config.result.max_workers

\* C22: with a positive candidate count n, _resolve_refresh_config returns
\* a worker count and a batch size that are both at most n, the batch size
\* not below the worker count; a value that was above n comes back as n
\* (a stored batch size of 1000 with n = 3: batch size 3, worker count 3).
C22_ShrunkToCandidates ==
    (config.result # NoResult /\ config.total > 0) =>
        LET tuned == TuneConfig(
                 [delay_seconds |-> 0,
                  max_workers |-> ClampSetting(
                      GetSettingIntConn(config.raw_workers, EnvMaxWorkers), 1, 20),
                  batch_size |-> ClampSetting(
                      GetSettingIntConn(config.raw_batch, EnvBatchSize), 1, 100)],
                 config.total, config.mode)
        IN /\ config.result.max_workers <= config.total
           /\ config.result.batch_size <= config.total
           /\ config.result.batch_size >= config.result.max_workers
           /\ config.total < tuned.max_workers => config.result.max_workers = config.total
           /\ config.total < tuned.batch_size => config.result.batch_size = config.total

\* a stored batch size of 1000 and three candidates: both values are 3
C22_Witness ==
    /\ config.raw_batch = JStr(1000)
    /\ config.raw_workers = JAbsent
    /\ config.total = 3
    /\ config.mode = "default"
    /\ config.result.batch_size = 3
    /\ config.result.max_workers = 3

\* ---- the scheduler lock
\* process p ran try_acquire_scheduler_lock in this step
TryAcquireStep(p) == scheduler[p].state = "init" /\ scheduler'[p].state # "init"

\* process p ran refresh_scheduler_lock in this step
HeartbeatStep(p) ==
    /\ scheduler[p].state = "up"
    /\ scheduler'[p].state = "up"
    /\ scheduler'[p].next_beat # scheduler[p].next_beat

\* C24: TryAcquire by P returns false and leaves the lock unchanged exactly
\* when the stored lock has a heartbeat younger than the TTL and an owner
\* other than P; in every other case it overwrites the lock with owner P and
\* a fresh heartbeat and returns true.
C24_TryAcquireExactly ==
    [][\A p \in Procs : TryAcquireStep(p) =>
          IF /\ scheduler_lock # NoLock
             /\ now - scheduler_lock.updated_at < SchedulerLockTtl
             /\ scheduler_lock.owner # p
          THEN scheduler'[p].state = "off" /\ scheduler_lock' = scheduler_lock
          ELSE /\ scheduler'[p].state = "up"
               /\ scheduler_lock' = [owner |-> p, updated_at |-> now]]_vars

\* C25: a heartbeat by P rewrites the heartbeat only when the stored owner is
\* P; with the lock absent or owned by another it leaves the record as it
\* is; it never changes the owner, so it never takes a lost lock back.
C25_HeartbeatOwnerOnly ==
    [][\A p \in Procs : HeartbeatStep(p) =>
          /\ (scheduler_lock = NoLock \/ scheduler_lock.owner # p)
                => scheduler_lock' = scheduler_lock
          /\ scheduler_lock' # scheduler_lock
                => /\ scheduler_lock.owner = p
                   /\ scheduler_lock' = [owner |-> p, updated_at |-> now]
          /\ scheduler_lock'.owner = scheduler_lock.owner]_vars

\* process 1 lost the lock to process 2, and its heartbeat job found that
C25_Witness ==
    /\ scheduler[1].state = "up"
    /\ scheduler[1].beat = "skipped"
    /\ scheduler_lock.owner = 2

\* C23: at most one process at a time executes the periodic refresh job: a
\* periodic run is only ever started by a process that at that moment is the
\* owner recorded in the scheduler lock with a heartbeat younger than the
\* TTL, and never while the periodic run of another process is in progress.
C23_OnePeriodicRun ==
    [][\A p \in Procs : (rpc[p] = "idle" /\ rpc'[p] # "idle") =>
          /\ scheduler_lock.owner = p
          /\ now - scheduler_lock.updated_at < SchedulerLockTtl
          /\ \A q \in Procs \ {p} : rpc[q] = "idle"]_vars

\* C26: while the owner of the lock is alive with its heartbeat job running
\* at its interval, no TryAcquire of another process succeeds, whatever the
\* owner's refresh run is doing.
C26_OwnerKeepsLock ==
    [][\A q \in Procs : (TryAcquireStep(q) /\ scheduler'[q].state = "up") =>
          ~ \E p \in Procs \ {q} : /\ scheduler[p].state = "up"
                                   /\ scheduler_lock.owner = p]_vars

\* C27: if the consumer of a run's event stream stops consuming before the
\* complete event, the run still goes through all its remaining batches,
\* and its refresh_runs row and its checkpoint end up completed.
C27_DetachedRunCompletes ==
    (run[1].detached /\ rpc[1] = "running")
        ~> (/\ refresh_runs # <<>>
            /\ refresh_runs[1].status = "completed"
            /\ resume_states["manual"].status = "completed")

\* ---- resuming
\* runner 1 starts a run in this step
RunStartStep == rpc[1] = "idle" /\ rpc'[1] # "idle"

\* the checkpoint the run started in this step is allowed to resume from:
\* that of its own scope, running, and not older than the staleness window
Honoured(ck) ==
    /\ run'[1].resume
    /\ ck.status = "running"
    /\ now - ck.updated_at <= ResumeTtl

\* C28: a run resumes only from a checkpoint of its own scope that is
\* running and was updated within the staleness window (6 hours), and then
\* skips exactly the accounts with id <= the checkpoint's last id; with the
\* checkpoint absent, completed or stale, or with resume = false, it takes
\* every candidate account, from the lowest id.
C28_ResumeHonoured ==
    [][RunStartStep =>
          LET ck == resume_states[run'[1].resume_key]
              row == refresh_runs'[Len(refresh_runs')]
          IN /\ run'[1].todo =
                   IF Honoured(ck)
                   THEN SelectSeq(ActiveAccounts(accounts), LAMBDA a : a > ck.last_id)
                   ELSE ActiveAccounts(accounts)
             /\ row.skipped =
                   IF Honoured(ck)
                   THEN Cardinality({a \in ActiveIds : a <= ck.last_id})
                   ELSE 0
             /\ row.resumed => Honoured(ck)]_vars

\* a run that died after its first batch is resumed exactly six hours
\* later: it skips account 1 and takes 2 and 3, while the other scope's run
\* started then would take all three
C28_Witness ==
    /\ now = ResumeTtl
    /\ Len(refresh_runs) = 2
    /\ refresh_runs[2].resumed
    /\ refresh_runs[2].skipped = 1
    /\ rpc[1] = "running"
    /\ run[1].todo = <<2, 3>>
    /\ resume_states["scheduled"].status = "none"

\* ---- a manual run and a periodic run
\* the run of runner r has yielded its complete event
Completed(r) ==
    /\ rpc[r] \in {"closing", "idle"}
    /\ events[r] # <<>>
    /\ events[r][Len(events[r])].type = "complete"

\* C29: a manual run and a periodic run of one process are not serialized.
\* A periodic run that starts while a manual run is in progress takes every
\* active account, also those the manual run has taken, and once both runs
\* have completed every active account has been validated by both (one
\* progress event in each stream) and logged by both (two log rows).
C29_RunsNotSerialized ==
    [][/\ (rpc[2] = "idle" /\ rpc'[2] # "idle" /\ rpc[1] # "idle") =>
             /\ run'[2].todo = ActiveAccounts(accounts)
             /\ SeqIds(run[1].todo) \subseteq SeqIds(run'[2].todo)
       /\ (Completed(1) /\ Completed(2))' =>
             \A a \in ActiveIds :
                /\ ProgressCount(events'[1], a) = 1
                /\ ProgressCount(events'[2], a) = 1
                /\ LogCount(refresh_logs', a) = 2]_vars

\* both runs are in progress, the manual run between its two batches and
\* the periodic run before its final UPDATE of refresh_runs, and account 1
\* has been validated and logged by each of them
C29_Witness ==
    /\ rpc[1] = "running"
    /\ rpc[2] = "completing"
    /\ run[1].refresh_type = "manual"
    /\ run[2].refresh_type = "scheduled"
    /\ ProgressCount(events[1], 1) = 1
    /\ ProgressCount(events[2], 1) = 1
    /\ LogCount(refresh_logs, 1) = 2

\* ---- the validator's retries
\* the answers the call has been given so far
Answered == SubSeq(validation.responses, 1, validation.posts)

\* C30: a validation call makes at most REFRESH_BACKOFF_RETRIES + 1 posts
\* and then ends with a result; a post is followed by another only after an
\* exception of the transport or a 429/500/502/503/504 answer, so a call
\* whose first answer is a permanent error (400) ends after that one post.
C30_BoundedAttempts ==
    /\ validation.posts <= BackoffRetries + 1
    /\ validation.posts = BackoffRetries + 1 => validation.state = "returned"
    /\ validation.state = "returned" <=> validation.result # "none"
    /\ \A i \in 1..Len(Answered) :
          i < validation.posts => Answered[i] \in {0} \cup RetryStatus
    /\ validation.state = "returned" =>
          /\ validation.posts >= 1
          /\ validation.status = Answered[validation.posts]
          /\ validation.result = "success" <=> validation.status = 200
          /\ validation.responses[1] \in {200, 400} => validation.posts = 1
    /\ validation.state = "calling" => validation.posts = validation.attempt
    /\ validation.sleeps = validation.attempt

\* a call that was throttled, then hit a timeout, then was told the token is
\* revoked: three posts, two sleeps, a failure
C30_Witness ==
    /\ validation.state = "returned"
    /\ Answered = <<429, 0, 400>>
    /\ validation.result = "failed"
    /\ validation.sleeps = 2

\* four throttled answers in a row: the fourth is the call's result
C30_WitnessExhausted ==
    /\ validation.state = "returned"
    /\ Answered = <<429, 429, 429, 429>>
    /\ validation.result = "failed"

\* ---- the thread pool of a run
\* the accounts of the batches before the one in progress
EarlierBatches(r) == {run[r].todo[i] : i \in 1..Min2(run[r].batch_start, Len(run[r].todo))}

\* the accounts of the batch in progress
CurrentBatch(r) == SeqIds(BatchOf(run[r].todo, run[r].batch_start, run[r].batch_size))

\* C31: batches are strictly sequential and parallelism is bounded.  Never
\* are more validations in flight than the run's worker count; a validation
\* that starts belongs to the batch in progress, and by then every account
\* of the batches before it has its result committed and the persisted
\* checkpoint is that of the batch just before.
C31_SequentialBounded ==
    [][/\ Cardinality(inflight'[1]) <= run'[1].max_workers
       /\ inflight'[1] \subseteq CurrentBatch(1)'
       /\ \A a \in inflight'[1] \ inflight[1] :
             /\ a \in CurrentBatch(1)
             /\ \A b \in EarlierBatches(1) : LogCount(refresh_logs, b) = 1
             /\ run[1].plogs = <<>> \/ SeqIds([i \in 1..Len(run[1].plogs) |->
                                    run[1].plogs[i].account_id]) \subseteq CurrentBatch(1)
             /\ run[1].batch_start > 0 =>
                   /\ resume_states["manual"].status = "running"
                   /\ resume_states["manual"].last_id = run[1].todo[run[1].batch_start]]_vars

\* one worker, batches of two: account 1 is being validated and account 2
\* waits in the queue for the worker
C31_Witness ==
    /\ rpc[1] = "running"
    /\ run[1].max_workers = 1
    /\ run[1].batch_size = 2
    /\ inflight[1] = {1}
    /\ run[1].waiting = {1, 2}

\* the second batch is in flight after the first was committed
C31_WitnessSecondBatch ==
    /\ rpc[1] = "running"
    /\ run[1].batch_start = 2
    /\ inflight[1] = {3}
    /\ resume_states["manual"].last_id = 2

\* ---- running totals
ProgressEvents(evs) == SelectSeq(evs, LAMBDA e : e.type = "progress")

\* C32: whatever the order in which the workers return, in every progress
\* event success_count + failed_count equals current, current is 1 in the
\* first progress event and grows by exactly 1 from each to the next, and
\* in the complete event success_count + failed_count equals total and
\* failed_list has exactly failed_count entries.
C32_RunningTotals ==
    LET P == ProgressEvents(events[1])
    IN /\ \A i \in 1..Len(P) :
             /\ P[i].current = i
             /\ P[i].success_count + P[i].failed_count = P[i].current
       /\ \A i \in 1..Len(events[1]) :
             events[1][i].type = "complete" =>
                /\ events[1][i].success_count + events[1][i].failed_count
                      = events[1][i].total
                /\ Len(events[1][i].failed_list) = events[1][i].failed_count
                /\ events[1][i].total = Len(P)

\* a run over three accounts has completed; the workers of its first batch
\* returned out of order (account 2 before account 1), with a failure and
\* a success among the results
C32_Witness ==
    /\ Returned
    /\ Len(ProgressEvents(events[1])) = 3
    /\ ProgressEvents(events[1])[1].id = 2
    /\ ProgressEvents(events[1])[2].id = 1
    /\ events[1][Len(events[1])].failed_count = 1
    /\ events[1][Len(events[1])].success_count = 2

\* ---- what a run changes of an account
\* the uncommitted result of runner 1 for account a with this status
PendingResult(a, status) ==
    \E i \in 1..Len(run[1].plogs) :
        /\ run[1].plogs[i].account_id = a
        /\ run[1].plogs[i].status = status

\* C33: a refresh run changes an account only by setting last_refresh_at
\* after a successful validation of that account.  A failed outcome leaves
\* the account as it was, and no outcome, throttled or not, changes an
\* account's status or any lease.
C33_OnlyLastRefresh ==
    [][/\ leases' = leases
       /\ DOMAIN accounts' = DOMAIN accounts
       /\ \A a \in DOMAIN accounts :
             /\ accounts'[a].status = accounts[a].status
             /\ accounts'[a].group_id = accounts[a].group_id
             /\ accounts'[a] # accounts[a] => PendingResult(a, "success")
             /\ (PendingResult(a, "failed") /\ ~PendingResult(a, "success"))
                   => accounts'[a] = accounts[a]]_vars

\* the run has completed over two leased active accounts: account 1 was
\* throttled and is as it was, account 2 succeeded and has its
\* last_refresh_at set, and both leases are still there
C33_Witness ==
    /\ Returned
    /\ events[1][Len(events[1])].failed_list = <<[id |-> 1, error |-> "throttled"]>>
    /\ accounts[1] = [status |-> "active", group_id |-> 1, last_refresh_at |-> -1]
    /\ accounts[2] = [status |-> "active", group_id |-> 1, last_refresh_at |-> RaceNow]
    /\ Cardinality(leases) = 2

\* ---- scopes
\* C34: checkpoints of different resume scopes are independent.  A step of
\* a run of scope A changes no checkpoint but that of A, and the run starts
\* from what the checkpoint of A alone says, so the checkpoint an
\* interrupted run of scope B left behind stays as it is, and resumable,
\* whatever runs of scope A do.
C34_ScopesIndependent ==
    [][/\ \A B \in ResumeKeys :
             resume_states'[B] # resume_states[B] =>
                B = IF RunStartStep THEN run'[1].resume_key ELSE run[1].resume_key
       /\ RunStartStep =>
             LET own == GetResumeState(resume_states[run'[1].resume_key], now)
             IN run'[1].todo =
                   IF run'[1].resume /\ own # NoCheckpoint
                   THEN SelectSeq(ActiveAccounts(accounts), LAMBDA a : a > own.last_id)
                   ELSE ActiveAccounts(accounts)]_vars

\* a periodic run died after its first batch; a manual run with resume on
\* then took all three accounts and completed; the checkpoint of scope
\* scheduled is untouched and still resumable from account 1
C34_Witness ==
    /\ Len(refresh_runs) = 2
    /\ refresh_runs[1].refresh_type = "scheduled"
    /\ refresh_runs[1].status = "running"
    /\ refresh_runs[2].refresh_type = "manual"
    /\ refresh_runs[2].status = "completed"
    /\ refresh_runs[2].total = 3
    /\ ~refresh_runs[2].resumed
    /\ run[1].resume
    /\ resume_states["scheduled"].status = "running"
    /\ resume_states["scheduled"].last_id = 1
    /\ GetResumeState(resume_states["scheduled"], now) = resume_states["scheduled"]

\* ---- throttled validations
\* C35: a validation whose retries are all used up on 429 answers is a
\* failed outcome that is classified as throttled, whatever the body of the
\* answer says.
C35_ExhaustedIsThrottled ==
    (/\ validation.state = "returned"
     /\ validation.posts = BackoffRetries + 1
     /\ validation.status = 429)
        => /\ validation.result = "failed"
           /\ IsThrottleError(validation.error)

\* ---- the configuration of a run
\* C36: every run, whichever way it is triggered, records in its
\* refresh_runs row a worker count in 1..20, a batch size in 1..100, a
\* delay in 0..60 and a batch size not below the worker count.
C36_RecordedConfig ==
    \A i \in 1..Len(refresh_runs) :
        /\ refresh_runs[i].max_workers \in 1..20
        /\ refresh_runs[i].batch_size \in 1..100
        /\ refresh_runs[i].delay_seconds \in 0..60
        /\ refresh_runs[i].batch_size >= refresh_runs[i].max_workers

\* the same with the periodic trigger's delay and the runs without
\* candidates left out
C36_StreamsWithCandidates ==
    \A i \in 1..Len(refresh_runs) :
        (refresh_runs[i].total_all > 0 /\ scheduler[2].state # "up") =>
            /\ refresh_runs[i].max_workers \in 1..20
            /\ refresh_runs[i].batch_size \in 1..100
            /\ refresh_runs[i].delay_seconds \in 0..60
            /\ refresh_runs[i].batch_size >= refresh_runs[i].max_workers

\* the periodic trigger alone, over a store with candidates
C36_PeriodicDelay ==
    \A i \in 1..Len(refresh_runs) :
        (refresh_runs[i].total_all > 0 /\ scheduler[2].state = "up") =>
            refresh_runs[i].delay_seconds \in 0..60

\* ---- concurrent Complete calls
\* C37: for any lease id and any interleaving of concurrent Complete calls
\* naming it, at most one call answers success and writes a
\* checkout_complete audit record; every other call answers 404.
C37_OneCompleteWins ==
    \A r \in BagToSet(audit_logs) :
        r.action = "checkout_complete" => CopiesIn(r, audit_logs) <= 1

\* the same as steps: no DELETE step of a Complete answers success for a
\* lease id that is no longer in the store
C37_NoSecondSuccess ==
    [][\A c \in Callers :
         CompleteDeleteStep(c) => req[c].lease_id \in LeaseIds(leases)]_vars

\* ---- two overlapping runs of one resume scope
\* run r works on the scope scheduled and has not finished its batches
Unfinished(r) ==
    /\ rpc[r] = "running"
    /\ run[r].resume_key = "scheduled"
\* both runners are in a run of the scope scheduled
Overlapping ==
    \A r \in Runners : rpc[r] \in {"running", "completing"}
                       /\ run[r].resume_key = "scheduled"

\* C38: while two runs of the scope scheduled overlap, the stored checkpoint
\* of the scope never moves its last_id backwards while its status is
\* running, and it is not marked completed while one of the two runs still
\* has unprocessed batches.
C38_OverlapCheckpoint ==
    [][(Overlapping /\ Overlapping') =>
          /\ (resume_states["scheduled"].status = "running"
              /\ resume_states'["scheduled"].status = "running")
                => resume_states'["scheduled"].last_id
                      >= resume_states["scheduled"].last_id
          /\ resume_states'["scheduled"].status = "completed"
                => \A r \in Runners : ~Unfinished(r)']_vars

\* the first half alone
C38_LastIdForward ==
    [][(Overlapping /\ Overlapping'
        /\ resume_states["scheduled"].status = "running"
        /\ resume_states'["scheduled"].status = "running")
          => resume_states'["scheduled"].last_id
                >= resume_states["scheduled"].last_id]_vars

\* the second half alone
C38_NotCompletedEarly ==
    resume_states["scheduled"].status = "completed"
        => \A r \in Runners : ~Unfinished(r)

\* ---- the life of a process's scheduler
\* process p wrote the scheduler lock in this step
LockWriteStep(p) ==
    /\ scheduler_lock' # scheduler_lock
    /\ scheduler_lock'.owner = p

\* process p started its periodic run in this step
PeriodicStartStep(p) == rpc[p] = "idle" /\ rpc'[p] # "idle"

\* C39: the lock is tried for once per process, at scheduler initialisation.
\* A process whose attempt failed never tries again, never becomes a running
\* scheduler, never writes the lock and never starts a periodic run, however
\* old the owner's heartbeat gets; a process that got the lock can start its
\* periodic run when the trigger fires although another process owns the
\* lock by then.
C39_AcquireOnceAtInit ==
    [][\A p \in Procs :
         /\ scheduler[p].state # "init" => ~TryAcquireStep(p)
         /\ scheduler[p].state # "init" => scheduler'[p].state # "init"
         /\ scheduler[p].state = "off" =>
               /\ scheduler'[p].state \in {"off", "dead"}
               /\ ~LockWriteStep(p)
               /\ ~PeriodicStartStep(p)
         /\ scheduler[p].state \in {"off", "dead"} => scheduler'[p].state # "up"
         /\ (/\ scheduler[p].state = "up"
             /\ scheduler_lock.owner # p
             /\ rpc[p] = "idle"
             /\ dbLock = 0
             /\ Len(refresh_runs) + 1 \in RunIds)
               => ENABLED ScheduledRefreshTask(p)]_vars

\* process 2 failed to get the lock, and the owner's heartbeat is now older
\* than the TTL
C39_Witness ==
    /\ scheduler[2].state = "off"
    /\ scheduler_lock # NoLock
    /\ scheduler_lock.owner = 1
    /\ now - scheduler_lock.updated_at >= SchedulerLockTtl

\* process 1 got the lock, lost it to process 2, and its trigger has fired
C39_WitnessNotOwner ==
    /\ scheduler[1].state = "up"
    /\ scheduler_lock.owner = 2
    /\ rpc[1] # "idle"

====
